---------------------------- MODULE Spec2Model ----------------------------
(***************************************************************************)
(* Mount communication and motion core of saao_pyobs.                      *)
(*                                                                         *)
(* Two implementations of the same protocol are modelled side by side:     *)
(*   impl = "thread"  src/examples/TelescopeComm.py (OS threads,           *)
(*                    threading.Lock / threading.Event)                    *)
(*   impl = "task"    src/examples/piggybacktelescope.py (asyncio tasks on *)
(*                    one event loop, asyncio.Lock / asyncio.Event)        *)
(* Init chooses the implementation; every action is one statement (or one  *)
(* run of thread-local statements around at most one shared access) of the *)
(* code.  Under impl = "task" a task keeps the event loop (cur) until it   *)
(* reaches an await that really suspends.                                  *)
(***************************************************************************)
EXTENDS Integers, Sequences, FiniteSets, TLC

(***************************************************************************)
(* Bounds of the model.                                                    *)
(***************************************************************************)
\* angle reads (GET_MOT1, GET_MOT2, GET_MOT1, ...) issued by the
\* position-polling caller
MaxReads == 1
\* status polls the mount may answer "still moving" during one GOTO
MaxMoving == 1
\* status polls the mount may answer with fewer than two bytes (timeout)
MaxShort == 1

(***************************************************************************)
(* Program constants.                                                      *)
(***************************************************************************)
\* TelescopeComm.py:105  self.identity = (self.identity + 1) % 1000
ThreadModulus == 1000
\* piggybacktelescope.py:448  self.identity = (self.identity + 1) % 10000
TaskModulus == 10000
\* hex(255): the "stopped" sentinel of a status reply (TelescopeComm.py:214)
StoppedByte == 255

\* command frames (class attributes of both implementations)
RA_GOTO_RUN == "5001101300000001"
DEC_GOTO_RUN == "5001111300000001"
GOTO_MOT1_SLOW == "50041017"
GOTO_MOT1_FAST == "50041002"
GOTO_MOT2_SLOW == "50041117"
GOTO_MOT2_FAST == "50041102"
GOTO_STOP == "4d"
GET_MOT1_COMMAND == "5001100100000003"
GET_MOT2_COMMAND == "5001110100000003"
\* tracking opcodes (piggybacktelescope.py 88-91)
POS_MOT1_TRACKING == "50031006"
NEG_MOT1_TRACKING == "50031007"
POS_MOT2_TRACKING == "50031106"
NEG_MOT2_TRACKING == "50031107"

\* The frames the modelled callers put on the wire.  A GOTO frame is its
\* opcode followed by the encoded angle and "00"; the angle does not
\* influence arbitration or convergence, so a frame is named by its opcode;
\* so is a tracking frame (opcode, rate bytes, "0000").
Frames ==
    {RA_GOTO_RUN, DEC_GOTO_RUN, GOTO_MOT1_SLOW, GOTO_MOT1_FAST,
     GOTO_MOT2_SLOW, GOTO_MOT2_FAST, GOTO_STOP, GET_MOT1_COMMAND,
     GET_MOT2_COMMAND, POS_MOT1_TRACKING, NEG_MOT1_TRACKING,
     POS_MOT2_TRACKING, NEG_MOT2_TRACKING}

FastFrames == {GOTO_MOT1_FAST, GOTO_MOT2_FAST}
SlowFrames == {GOTO_MOT1_SLOW, GOTO_MOT2_SLOW}
PollFrames == {RA_GOTO_RUN, DEC_GOTO_RUN}

\* The concurrent callers: the slew, the stop request, position polling.
Threads == {"goto", "stop", "poll"}

VARIABLES
    impl,           \* "thread" | "task"
    cur,            \* task holding the event loop, "none" if it is free
    lock,           \* owner of lock / _lock_RS232_comm, "none" if free
    event,          \* flag of event / _event_RS232_comm
    identity,       \* self.identity
    RS232_QUEUE,    \* self.RS232_QUEUE
    pc,             \* position of each caller inside RS232_Talk
    my_id,          \* local my_id of each caller
    cmd,            \* argument command of each caller's RS232_Talk
    data,           \* reply returned to each caller
    op,             \* position of each caller in its own operation
    gphase,         \* which poll loop of the GOTO: "fast" | "slow"
    test,           \* local test of the GOTO
    ra_running,     \* local ra_running of the GOTO
    dec_running,    \* local dec_running of the GOTO
    GOTO_IN_STOP,   \* self.GOTO_IN_STOP
    GOTO_RUNNING,   \* self.GOTO_RUNNING
    abort_event,    \* abort_event.is_set() of the running __move
    reads,          \* angle reads the position-polling caller has issued
    movingLeft,     \* "still moving" replies the mount may still give
    shortLeft,      \* short replies the mount may still give
    rs232_init,     \* self.rs232_init: the initialisation has run
    motion_status,  \* status set by _change_motion_status (task version)
    goto_ret,       \* what the GOTO returned, "none" before it returns
    mot1,           \* self.mot1, in units of 360 / 2^24 degrees
    mot2,           \* self.mot2, in units of 360 / 2^24 degrees
    areads,         \* angle reads done one after the other (AngleSpec)
    last,           \* the last of these angle reads: axis, reply, outcome
    tracking_rate_mot1, \* self.tracking_rate_mot1 (task version)
    tracking_rate_mot2, \* self.tracking_rate_mot2 (task version)
    calc,           \* last evaluation of a pure function: input and result
    \* ---- observers (never read by the program) ----
    nSent,          \* frames written to the transport, per frame
    inflight,       \* caller whose write is not yet followed by its read
    interleaved,    \* a write or read arrived inside another transaction
    arrivals,       \* number of tickets appended so far
    arr,            \* arrival number of each caller's current ticket
    abortAt,        \* state of the GOTO when an abort was first requested
    ffFast,         \* axis answered 0xFF to a poll of the fast phase
    ffSlow,         \* axis answered 0xFF to a poll issued after the slow frames
    txAfterAbort,   \* transactions the GOTO submitted while its abort flag was set
    trail,          \* states the GOTO has passed through
    offTurn,        \* who touched the transport without the head ticket
    ioFailed        \* callers whose ser.write / ser.readline raised

talkVars == <<lock, event, identity, RS232_QUEUE, pc, my_id, cmd, data>>
gotoVars == <<gphase, test, ra_running, dec_running>>
flagVars == <<GOTO_IN_STOP, GOTO_RUNNING, abort_event>>
mountVars == <<movingLeft, shortLeft>>
obsVars == <<nSent, inflight, interleaved, arrivals, arr, abortAt, ffFast,
             ffSlow, txAfterAbort, trail>>
statusVars == <<rs232_init, motion_status, goto_ret>>
angleVars == <<mot1, mot2, areads, last>>
trackVars == <<tracking_rate_mot1, tracking_rate_mot2>>
extVars == <<ioFailed, calc, trackVars>>
auxVars == <<statusVars, offTurn, extVars>>
vars == <<impl, cur, op, reads, talkVars, gotoVars, flagVars, mountVars, obsVars,
          auxVars, angleVars>>

(***************************************************************************)
(* Scheduling.                                                             *)
(***************************************************************************)
\* asyncio.Lock.acquire suspends the task when the lock is held.
LockBlocked(t) == t \in Threads /\ pc[t] \in {"acq1", "pop"} /\ lock # "none"

\* Threads are preemptive.  A task runs only while it holds the event loop,
\* or takes it when the loop is free or its holder is suspended on the lock.
CanRun(t) ==
    \/ impl = "thread"
    \/ cur = "none"
    \/ cur = t
    \/ LockBlocked(cur)

\* The step does not suspend: a task keeps the event loop.
Hold(t) == IF impl = "task" THEN t ELSE "none"

Modulus == IF impl = "thread" THEN ThreadModulus ELSE TaskModulus

\* list.index(x): the 0-based position of the first x, -1 when absent
\* (Python raises ValueError there).
Index(q, x) ==
    IF \E i \in 1..Len(q) : q[i] = x
    THEN (CHOOSE i \in 1..Len(q) : q[i] = x /\ \A j \in 1..(i-1) : q[j] # x) - 1
    ELSE -1


\* The flag the poll loops of the GOTO sample: self.GOTO_IN_STOP in
\* TelescopeComm.GOTO_MOT1MOT2 (lines 206, 244), abort_event.is_set() in
\* piggyBackTelescope.__move (lines 252, 290).
AbortFlag == IF impl = "thread" THEN GOTO_IN_STOP ELSE abort_event

\* State of the GOTO state machine at position o of GOTO_MOT1MOT2 / __move:
\* ph is the poll loop the position belongs to, tst the local test.
GotoStateOf(o, ph, tst) ==
    CASE o \in {"init", "entry", "reset"} -> "Idle"
      [] o \in {"fast2", "fast1"} -> "FastSlew"
      [] o \in {"head", "ra", "dec"} ->
            IF ph = "fast" THEN "FastSlew" ELSE "SlowSlew"
      [] o \in {"slow2", "slow1", "finish"} -> "SlowSlew"
      [] o = "done" -> IF tst THEN "Converged" ELSE "Aborted"
      [] OTHER -> "Faulted"

GotoState == GotoStateOf(op["goto"], gphase, test)

\* trail after the GOTO has moved to position o.
Trail(o, ph, tst) ==
    IF GotoStateOf(o, ph, tst) = trail[Len(trail)]
    THEN trail
    ELSE Append(trail, GotoStateOf(o, ph, tst))

\* mot1 = 90.0, mot2 = 90.0 (TelescopeComm.py 35-36,
\* piggybacktelescope.py 54-55): 90 degrees in units of 360 / 2^24.
ParkAngle == 4194304

\* No pure function has been evaluated yet.
NoCalc == [fn |-> "none"]

\* No angle read has been done yet.
NoRead ==
    [axis |-> 0, reply |-> <<>>, ret |-> -1, fault |-> FALSE, via |-> "none",
     was |-> <<0, 0>>]

InitAt(id0) ==
    /\ impl \in {"thread", "task"}
    /\ cur = "none"
    /\ lock = "none"
    /\ event = FALSE
    /\ identity = id0
    /\ RS232_QUEUE = <<>>
    /\ pc = [t \in Threads |-> "idle"]
    /\ my_id = [t \in Threads |-> 0]
    /\ cmd = [t \in Threads |-> ""]
    /\ data = [t \in Threads |-> <<>>]
    /\ op = [t \in Threads |-> "init"]
    /\ gphase = "fast"
    /\ test = FALSE
    /\ ra_running = FALSE
    /\ dec_running = FALSE
    /\ GOTO_IN_STOP = FALSE
    /\ GOTO_RUNNING = FALSE
    /\ abort_event = FALSE
    /\ reads = 0
    /\ movingLeft = MaxMoving
    /\ shortLeft = MaxShort
    /\ nSent = [f \in Frames |-> 0]
    /\ inflight = "none"
    /\ interleaved = FALSE
    /\ arrivals = 0
    /\ arr = [t \in Threads |-> 0]
    /\ abortAt = "none"
    /\ ffFast = [a \in {RA_GOTO_RUN, DEC_GOTO_RUN} |-> FALSE]
    /\ ffSlow = [a \in {RA_GOTO_RUN, DEC_GOTO_RUN} |-> FALSE]
    /\ txAfterAbort = 0
    /\ trail = <<"Idle">>
    /\ rs232_init = FALSE
    /\ motion_status = "none"
    /\ goto_ret = "none"
    /\ mot1 = ParkAngle
    /\ mot2 = ParkAngle
    /\ areads = 0
    /\ last = NoRead
    /\ offTurn = {}
    /\ ioFailed = {}
    /\ calc = NoCalc
    /\ tracking_rate_mot1 = 0
    /\ tracking_rate_mot2 = 0

\* identity = 0  (TelescopeComm.py 43, piggybacktelescope.py 64)
Init == InitAt(0)

(***************************************************************************)
(* RS232_Talk: TelescopeComm.py 96-135, piggybacktelescope.py 439-489.     *)
(***************************************************************************)
\* A caller enters RS232_Talk(frame).
Call(t, frame) ==
    /\ pc' = [pc EXCEPT ![t] = "acq1"]
    /\ cmd' = [cmd EXCEPT ![t] = frame]

\* LockAcquire1 without the lock: the caller goes on while another holds it.
LockAcquire1_NoLock(t) ==
    /\ pc[t] = "acq1" /\ CanRun(t)
    /\ lock' = t
    /\ pc' = [pc EXCEPT ![t] = "inc"]
    /\ cur' = Hold(t)
    /\ UNCHANGED <<impl, angleVars, auxVars, op, reads, event, identity,
                   RS232_QUEUE, my_id, cmd, data, gotoVars, flagVars,
                   mountVars, obsVars>>

\* self.lock.acquire()  (102) / await self._lock_RS232_comm.acquire() (445)
LockAcquire1(t) ==
    /\ pc[t] = "acq1" /\ CanRun(t)
    /\ lock = "none"
    /\ lock' = t
    /\ pc' = [pc EXCEPT ![t] = "inc"]
    /\ cur' = Hold(t)
    /\ UNCHANGED <<impl, angleVars, auxVars, op, reads, event, identity,
                   RS232_QUEUE, my_id, cmd,
                   data, gotoVars, flagVars, mountVars, obsVars>>

\* IncIdentity with a counter that stops at its largest value.
IncIdentity_Saturate(t) ==
    /\ pc[t] = "inc" /\ CanRun(t)
    /\ identity' = IF identity + 1 = Modulus THEN identity ELSE identity + 1
    /\ pc' = [pc EXCEPT ![t] = "app"]
    /\ cur' = Hold(t)
    /\ UNCHANGED <<impl, angleVars, auxVars, op, reads, lock, event,
                   RS232_QUEUE, my_id, cmd,
                   data, gotoVars, flagVars, mountVars, obsVars>>

\* self.identity = (self.identity + 1) % 1000  (105) / % 10000 (448)
IncIdentity(t) ==
    /\ pc[t] = "inc" /\ CanRun(t)
    /\ identity' = (identity + 1) % Modulus
    /\ pc' = [pc EXCEPT ![t] = "app"]
    /\ cur' = Hold(t)
    /\ UNCHANGED <<impl, angleVars, auxVars, op, reads, lock, event,
                   RS232_QUEUE, my_id, cmd,
                   data, gotoVars, flagVars, mountVars, obsVars>>

\* Enqueue with insert(0, my_id) in place of append(my_id).
Enqueue_Front(t) ==
    /\ pc[t] = "app" /\ CanRun(t)
    /\ my_id' = [my_id EXCEPT ![t] = identity]
    /\ RS232_QUEUE' = <<identity>> \o RS232_QUEUE
    /\ lock' = "none"
    /\ arrivals' = arrivals + 1
    /\ arr' = [arr EXCEPT ![t] = arrivals + 1]
    /\ pc' = [pc EXCEPT ![t] = "clr1"]
    /\ cur' = Hold(t)
    /\ UNCHANGED <<impl, angleVars, auxVars, op, reads, event, identity, cmd,
                   data,
                   gotoVars, flagVars, mountVars, nSent, inflight,
                   interleaved, abortAt, ffFast, ffSlow, txAfterAbort, trail>>

\* my_id = self.identity; self.RS232_QUEUE.append(my_id);
\* finally: self.lock.release()  (106-113 / 449-459)
Enqueue(t) ==
    /\ pc[t] = "app" /\ CanRun(t)
    /\ my_id' = [my_id EXCEPT ![t] = identity]
    /\ RS232_QUEUE' = Append(RS232_QUEUE, identity)
    /\ lock' = "none"
    /\ arrivals' = arrivals + 1
    /\ arr' = [arr EXCEPT ![t] = arrivals + 1]
    /\ pc' = [pc EXCEPT ![t] = "clr1"]
    /\ cur' = Hold(t)
    /\ UNCHANGED <<impl, angleVars, auxVars, op, reads, event, identity, cmd,
                   data,
                   gotoVars, flagVars, mountVars, nSent, inflight,
                   interleaved, abortAt, ffFast, ffSlow, txAfterAbort, trail>>

\* self.event.clear()  (116 / 461)
EventClear1(t) ==
    /\ pc[t] = "clr1" /\ CanRun(t)
    /\ event' = FALSE
    /\ pc' = [pc EXCEPT ![t] = "chk"]
    /\ cur' = Hold(t)
    /\ UNCHANGED <<impl, angleVars, auxVars, op, reads, lock, identity,
                   RS232_QUEUE, my_id, cmd,
                   data, gotoVars, flagVars, mountVars, obsVars>>

\* CheckTurn with the turn test lost: the caller goes on to write whatever
\* its position in the list.
CheckTurn_NoWait(t) ==
    /\ pc[t] = "chk" /\ CanRun(t)
    /\ pc' = [pc EXCEPT ![t] = "write"]
    /\ cur' = Hold(t)
    /\ UNCHANGED <<impl, angleVars, auxVars, op, reads, lock, event, identity,
                   RS232_QUEUE, my_id,
                   cmd, data, gotoVars, flagVars, mountVars, obsVars>>

\* while self.RS232_QUEUE.index(my_id) != 0:  (117 / 464)
\* index raises ValueError when the ticket is not in the list; the
\* exception leaves RS232_Talk and the caller's operation.
CheckTurn(t) ==
    /\ pc[t] = "chk" /\ CanRun(t)
    /\ LET i == Index(RS232_QUEUE, my_id[t]) IN
         /\ pc' = [pc EXCEPT ![t] = IF i = -1 THEN "idle"
                                     ELSE IF i # 0 THEN "wait" ELSE "write"]
         /\ op' = [op EXCEPT ![t] = IF i = -1 THEN "fault" ELSE @]
         /\ cur' = IF i = -1 THEN "none" ELSE Hold(t)
    /\ UNCHANGED <<impl, angleVars, auxVars, reads, lock, event, identity,
                   RS232_QUEUE, my_id,
                   cmd, data, gotoVars, flagVars, mountVars, obsVars>>

\* self.event.wait()  (119) / await self._event_RS232_comm.wait() (468)
\* Event.wait tests the flag and starts waiting in one step (under the
\* event's own condition lock).  A set flag lets the caller through; the
\* task then reaches await asyncio.sleep(0.05) (469), which suspends it.
EventWait(t) ==
    /\ pc[t] = "wait" /\ CanRun(t)
    /\ pc' = [pc EXCEPT ![t] = IF event THEN "clr2" ELSE "blocked"]
    /\ cur' = "none"
    /\ UNCHANGED <<impl, angleVars, auxVars, op, reads, lock, event, identity,
                   RS232_QUEUE,
                   my_id, cmd, data, gotoVars, flagVars, mountVars, obsVars>>

\* self.event.clear() after the wait returned  (120 / 470).  A task gets
\* here after its sleep(0.05), when the event loop runs it again.
EventClear2(t) ==
    /\ pc[t] = "clr2" /\ CanRun(t)
    /\ event' = FALSE
    /\ pc' = [pc EXCEPT ![t] = "chk"]
    /\ cur' = Hold(t)
    /\ UNCHANGED <<impl, angleVars, auxVars, op, reads, lock, identity,
                   RS232_QUEUE, my_id, cmd,
                   data, gotoVars, flagVars, mountVars, obsVars>>

\* self.ser.write(s)  (123 / 474): a blocking call, no suspension
SerWrite(t) ==
    /\ pc[t] = "write" /\ CanRun(t)
    /\ nSent' = [nSent EXCEPT ![cmd[t]] = @ + 1]
    /\ interleaved' = (interleaved \/ inflight # "none")
    /\ offTurn' = (IF Index(RS232_QUEUE, my_id[t]) = 0
                   THEN offTurn ELSE offTurn \cup {t})
    /\ inflight' = t
    /\ pc' = [pc EXCEPT ![t] = "read"]
    /\ cur' = Hold(t)
    /\ UNCHANGED <<impl, angleVars, extVars, statusVars, op, reads, lock, event,
                   identity, RS232_QUEUE,
                   my_id, cmd, data, gotoVars, flagVars, mountVars, arrivals,
                   arr, abortAt, ffFast, ffSlow, txAfterAbort, trail>>

\* What the mount may answer to frame f within the read timeout: to a
\* status poll two bytes whose first is 0xFF (stopped) or not (moving), or
\* fewer than two bytes; to any other frame an acknowledgement.
Replies(f) ==
    IF f \in PollFrames
    THEN {<<StoppedByte, 0>>}
         \cup (IF movingLeft > 0 THEN {<<0, 0>>} ELSE {})
         \cup (IF shortLeft > 0 THEN {<<>>, <<StoppedByte>>} ELSE {})
    ELSE {<<35>>}

\* data = self.ser.readline()  (124 / 475): a blocking call that returns
\* after at most the port's timeout
SerReadline(t) ==
    /\ pc[t] = "read" /\ CanRun(t)
    /\ \E r \in Replies(cmd[t]) :
         /\ data' = [data EXCEPT ![t] = r]
         /\ movingLeft' = IF r = <<0, 0>> THEN movingLeft - 1 ELSE movingLeft
         /\ shortLeft' = IF cmd[t] \in PollFrames /\ Len(r) < 2
                         THEN shortLeft - 1 ELSE shortLeft
         /\ LET ff == t = "goto" /\ cmd[t] \in PollFrames
                      /\ Len(r) > 0 /\ r[1] = StoppedByte
                slow == nSent[GOTO_MOT1_SLOW] > 0 /\ nSent[GOTO_MOT2_SLOW] > 0
            IN /\ ffFast' = IF ff /\ ~slow
                            THEN [ffFast EXCEPT ![cmd[t]] = TRUE] ELSE ffFast
               /\ ffSlow' = IF ff /\ slow
                            THEN [ffSlow EXCEPT ![cmd[t]] = TRUE] ELSE ffSlow
    /\ interleaved' = (interleaved \/ inflight # t)
    /\ offTurn' = (IF Index(RS232_QUEUE, my_id[t]) = 0
                   THEN offTurn ELSE offTurn \cup {t})
    /\ inflight' = "none"
    /\ pc' = [pc EXCEPT ![t] = "pop"]
    /\ cur' = Hold(t)
    /\ UNCHANGED <<impl, angleVars, extVars, statusVars, op, reads, lock, event,
                   identity, RS232_QUEUE,
                   my_id, cmd, gotoVars, flagVars, nSent, arrivals, arr,
                   abortAt, txAfterAbort, trail>>

\* Pop with pop() in place of pop(0): the last ticket is removed.
Pop_Last(t) ==
    /\ pc[t] = "pop" /\ CanRun(t)
    /\ lock = "none"
    /\ RS232_QUEUE' = IF RS232_QUEUE = <<>> THEN <<>>
                      ELSE SubSeq(RS232_QUEUE, 1, Len(RS232_QUEUE) - 1)
    /\ pc' = [pc EXCEPT ![t] = "set"]
    /\ cur' = Hold(t)
    /\ UNCHANGED <<impl, angleVars, auxVars, op, reads, lock, event, identity,
                   my_id, cmd, data, gotoVars, flagVars, mountVars, obsVars>>

\* Pop with the removal of the head lost.
Pop_Keep(t) ==
    /\ pc[t] = "pop" /\ CanRun(t)
    /\ lock = "none"
    /\ pc' = [pc EXCEPT ![t] = "set"]
    /\ cur' = Hold(t)
    /\ UNCHANGED <<impl, angleVars, auxVars, op, reads, lock, event, identity,
                   RS232_QUEUE, my_id,
                   cmd, data, gotoVars, flagVars, mountVars, obsVars>>

\* self.lock.acquire(); try: self.RS232_QUEUE.pop(0) except: print(...)
\* finally: self.lock.release()  (125-131 / 477-485)
\* pop(0) of an empty list raises IndexError, which the bare except
\* swallows: the thread version prints, the task version logs and sets
\* the motion status to ERROR (480-482); both go on to return data.
\* The lock is taken, the head removed and the lock released
\* in one step: nothing else is touched while the lock is held.
Pop(t) ==
    /\ pc[t] = "pop" /\ CanRun(t)
    /\ lock = "none"
    /\ RS232_QUEUE' = IF RS232_QUEUE = <<>> THEN <<>> ELSE Tail(RS232_QUEUE)
    /\ motion_status' = IF RS232_QUEUE = <<>> /\ impl = "task"
                        THEN "ERROR" ELSE motion_status
    /\ pc' = [pc EXCEPT ![t] = "set"]
    /\ cur' = Hold(t)
    /\ UNCHANGED <<impl, angleVars, extVars, rs232_init, goto_ret, offTurn, op, reads,
                   lock, event, identity, my_id, cmd, data, gotoVars,
                   flagVars, mountVars, obsVars>>

\* self.event.set(); return data  (133-135 / 488-489).  set() releases
\* every caller that is waiting at this moment: each returns from its wait
\* whatever happens to the flag afterwards.  The locals of the call end
\* with it.
EventSet(t) ==
    /\ pc[t] = "set" /\ CanRun(t)
    /\ event' = TRUE
    /\ pc' = [u \in Threads |->
                IF u = t THEN "idle"
                ELSE IF pc[u] = "blocked" THEN "clr2" ELSE pc[u]]
    /\ my_id' = [my_id EXCEPT ![t] = 0]
    /\ cmd' = [cmd EXCEPT ![t] = ""]
    /\ arr' = [arr EXCEPT ![t] = 0]
    /\ cur' = Hold(t)
    /\ UNCHANGED <<impl, angleVars, auxVars, op, reads, lock, identity,
                   RS232_QUEUE, data,
                   gotoVars, flagVars, mountVars, nSent, inflight,
                   interleaved, arrivals, abortAt, ffFast, ffSlow,
                   txAfterAbort, trail>>

RS232_Talk(t) ==
    \/ LockAcquire1(t) \/ IncIdentity(t) \/ Enqueue(t) \/ EventClear1(t)
    \/ CheckTurn(t) \/ EventWait(t) \/ EventClear2(t) \/ SerWrite(t)
    \/ SerReadline(t) \/ Pop(t) \/ EventSet(t)

(***************************************************************************)
(* GOTO: TelescopeComm.GOTO_MOT1MOT2 (185-276),                            *)
(* piggyBackTelescope.__move (223-323).  The caller is "goto".             *)
(***************************************************************************)
\* Where the GOTO stands when an abort is requested.
AbortPoint ==
    IF op["goto"] \in {"head", "ra", "dec"}
    THEN (IF gphase = "fast" THEN "FastLoop" ELSE "SlowLoop")
    ELSE GotoState

\* The GOTO enters RS232_Talk(frame); flag is its abort flag at that moment.
GotoTalk(frame, flag) ==
    /\ Call("goto", frame)
    /\ txAfterAbort' = IF flag THEN txAfterAbort + 1 ELSE txAfterAbort

\* The slew is requested: GOTO_RADEC sets self.GOTO_RUNNING = True (293)
\* and calls GOTO_MOT1MOT2 (333); _move_radec sets it (163) and awaits
\* __move (189), which first awaits
\* self._change_motion_status(MotionStatus.SLEWING) (233) and so hands the
\* event loop to the framework.
GotoEnter ==
    /\ op["goto"] = "init" /\ CanRun("goto")
    /\ rs232_init
    /\ GOTO_RUNNING' = TRUE
    /\ motion_status' = IF impl = "task" THEN "SLEWING" ELSE motion_status
    /\ op' = [op EXCEPT !["goto"] = "entry"]
    /\ cur' = "none"
    /\ UNCHANGED <<impl, angleVars, extVars, rs232_init, goto_ret, offTurn, reads,
                   talkVars, gotoVars, GOTO_IN_STOP, abort_event,
                   mountVars, obsVars>>

\* self.GOTO_RUNNING = True  (189 / 235)
GotoSetRunning ==
    /\ op["goto"] = "entry" /\ CanRun("goto")
    /\ GOTO_RUNNING' = TRUE
    /\ op' = [op EXCEPT !["goto"] = "reset"]
    /\ cur' = Hold("goto")
    /\ UNCHANGED <<impl, angleVars, auxVars, reads, talkVars, gotoVars,
                   GOTO_IN_STOP, abort_event,
                   mountVars, obsVars>>

\* self.GOTO_IN_STOP = False; the four frames are built;
\* data = self.RS232_Talk(mot2_fast)  (190-197 / 236-243)
GotoResetStop ==
    /\ op["goto"] = "reset" /\ CanRun("goto")
    /\ GOTO_IN_STOP' = FALSE
    /\ GotoTalk(GOTO_MOT2_FAST, impl = "task" /\ abort_event)
    /\ op' = [op EXCEPT !["goto"] = "fast2"]
    /\ trail' = Trail("fast2", gphase, test)
    /\ cur' = Hold("goto")
    /\ UNCHANGED <<impl, angleVars, auxVars, reads, lock, event, identity,
                   RS232_QUEUE, my_id,
                   data, gotoVars, GOTO_RUNNING, abort_event, mountVars,
                   nSent, inflight, interleaved, arrivals, arr, abortAt,
                   ffFast, ffSlow>>

\* data = self.RS232_Talk(mot1_fast)  (198-200 / 244-246)
GotoFast1 ==
    /\ op["goto"] = "fast2" /\ pc["goto"] = "idle" /\ CanRun("goto")
    /\ GotoTalk(GOTO_MOT1_FAST, AbortFlag)
    /\ data' = [data EXCEPT !["goto"] = <<>>]
    /\ op' = [op EXCEPT !["goto"] = "fast1"]
    /\ cur' = Hold("goto")
    /\ UNCHANGED <<impl, angleVars, auxVars, reads, lock, event, identity,
                   RS232_QUEUE, my_id,
                   gotoVars, flagVars, mountVars, nSent, inflight,
                   interleaved, arrivals, arr, abortAt, ffFast, ffSlow, trail>>

\* GotoLoopInit with the reset of test, ra_running and dec_running lost.
GotoLoopInit_NoReset ==
    /\ op["goto"] \in {"fast1", "slow1"} /\ pc["goto"] = "idle"
    /\ CanRun("goto")
    /\ gphase' = IF op["goto"] = "fast1" THEN "fast" ELSE "slow"
    /\ data' = [data EXCEPT !["goto"] = <<>>]
    /\ op' = [op EXCEPT !["goto"] = "head"]
    /\ cur' = Hold("goto")
    /\ UNCHANGED <<impl, angleVars, auxVars, reads, lock, event, identity,
                   RS232_QUEUE, pc, my_id,
                   cmd, test, ra_running, dec_running, flagVars, mountVars,
                   obsVars>>

\* test = False; ra_running = False; dec_running = False
\* (201-205 / 247-251 before the fast loop, 239-243 / 285-289 before the
\* slow loop)
GotoLoopInit ==
    /\ op["goto"] \in {"fast1", "slow1"} /\ pc["goto"] = "idle"
    /\ CanRun("goto")
    /\ test' = FALSE
    /\ ra_running' = FALSE
    /\ dec_running' = FALSE
    /\ gphase' = IF op["goto"] = "fast1" THEN "fast" ELSE "slow"
    /\ data' = [data EXCEPT !["goto"] = <<>>]
    /\ op' = [op EXCEPT !["goto"] = "head"]
    /\ cur' = Hold("goto")
    /\ UNCHANGED <<impl, angleVars, auxVars, reads, lock, event, identity,
                   RS232_QUEUE, pc, my_id,
                   cmd, flagVars, mountVars, obsVars>>

\* GotoLoopHead with the loop condition reduced to "not test".
GotoLoopHead_NoAbort ==
    /\ op["goto"] = "head" /\ CanRun("goto")
    /\ cur' = Hold("goto")
    /\ IF ~test
       THEN IF ~ra_running
            THEN /\ GotoTalk(RA_GOTO_RUN, AbortFlag)
                 /\ op' = [op EXCEPT !["goto"] = "ra"]
                 /\ UNCHANGED <<test, trail>>
            ELSE IF ~dec_running
            THEN /\ GotoTalk(DEC_GOTO_RUN, AbortFlag)
                 /\ op' = [op EXCEPT !["goto"] = "dec"]
                 /\ UNCHANGED <<test, trail>>
            ELSE /\ test' = TRUE
                 /\ UNCHANGED <<op, pc, cmd, txAfterAbort, trail>>
       ELSE IF gphase = "fast"
       THEN /\ GotoTalk(GOTO_MOT2_SLOW, AbortFlag)
            /\ op' = [op EXCEPT !["goto"] = "slow2"]
            /\ trail' = Trail("slow2", gphase, test)
            /\ UNCHANGED test
       ELSE /\ op' = [op EXCEPT !["goto"] = "finish"]
            /\ UNCHANGED <<pc, cmd, txAfterAbort, trail, test>>
    /\ UNCHANGED <<impl, angleVars, auxVars, reads, lock, event, identity,
                   RS232_QUEUE, my_id,
                   data, gphase, ra_running, dec_running, flagVars, mountVars,
                   nSent, inflight, interleaved, arrivals, arr, abortAt,
                   ffFast, ffSlow>>

\* GotoLoopHead that polls motor 1 in every iteration, stopped or not.
GotoLoopHead_NoLatch ==
    /\ op["goto"] = "head" /\ CanRun("goto")
    /\ cur' = Hold("goto")
    /\ IF ~test /\ ~AbortFlag
       THEN IF ~ra_running \/ ~dec_running
            THEN /\ GotoTalk(RA_GOTO_RUN, AbortFlag)
                 /\ op' = [op EXCEPT !["goto"] = "ra"]
                 /\ UNCHANGED <<test, trail>>
            ELSE IF ~dec_running
            THEN /\ GotoTalk(DEC_GOTO_RUN, AbortFlag)
                 /\ op' = [op EXCEPT !["goto"] = "dec"]
                 /\ UNCHANGED <<test, trail>>
            ELSE /\ test' = TRUE
                 /\ UNCHANGED <<op, pc, cmd, txAfterAbort, trail>>
       ELSE IF gphase = "fast"
       THEN /\ GotoTalk(GOTO_MOT2_SLOW, AbortFlag)
            /\ op' = [op EXCEPT !["goto"] = "slow2"]
            /\ trail' = Trail("slow2", gphase, test)
            /\ UNCHANGED test
       ELSE /\ op' = [op EXCEPT !["goto"] = "finish"]
            /\ UNCHANGED <<pc, cmd, txAfterAbort, trail, test>>
    /\ UNCHANGED <<impl, angleVars, auxVars, reads, lock, event, identity,
                   RS232_QUEUE, my_id,
                   data, gphase, ra_running, dec_running, flagVars, mountVars,
                   nSent, inflight, interleaved, arrivals, arr, abortAt,
                   ffFast, ffSlow>>

\* while not test and self.GOTO_IN_STOP == False:  (206, 244)
\* while test is False and abort_event.is_set() is False:  (252, 290)
\* The loop body polls motor 1 first unless it already reported stopped
\* (208-209), then motor 2 (220-221).  Leaving the fast loop leads to
\* data = self.RS232_Talk(mot2_slow) (235 / 281), leaving the slow loop to
\* the end of the GOTO.
GotoLoopHead ==
    /\ op["goto"] = "head" /\ CanRun("goto")
    /\ cur' = Hold("goto")
    /\ IF ~test /\ ~AbortFlag
       THEN IF ~ra_running
            THEN /\ GotoTalk(RA_GOTO_RUN, AbortFlag)
                 /\ op' = [op EXCEPT !["goto"] = "ra"]
                 /\ UNCHANGED <<test, trail>>
            ELSE IF ~dec_running
            THEN /\ GotoTalk(DEC_GOTO_RUN, AbortFlag)
                 /\ op' = [op EXCEPT !["goto"] = "dec"]
                 /\ UNCHANGED <<test, trail>>
            ELSE /\ test' = TRUE
                 /\ UNCHANGED <<op, pc, cmd, txAfterAbort, trail>>
       ELSE IF gphase = "fast"
       THEN /\ GotoTalk(GOTO_MOT2_SLOW, AbortFlag)
            /\ op' = [op EXCEPT !["goto"] = "slow2"]
            /\ trail' = Trail("slow2", gphase, test)
            /\ UNCHANGED test
       ELSE /\ op' = [op EXCEPT !["goto"] = "finish"]
            /\ UNCHANGED <<pc, cmd, txAfterAbort, trail, test>>
    /\ UNCHANGED <<impl, angleVars, auxVars, reads, lock, event, identity,
                   RS232_QUEUE, my_id,
                   data, gphase, ra_running, dec_running, flagVars, mountVars,
                   nSent, inflight, interleaved, arrivals, arr, abortAt,
                   ffFast, ffSlow>>

\* h1 = hex(data[0]); h2 = hex(data[1]); ra_running = (h1 == hex(255));
\* then the motor 2 poll unless it already reported stopped, else the end
\* of the loop body  (210-221, 232-233 / 256-267, 278-279).
\* A reply of fewer than two bytes raises IndexError, which leaves the GOTO.
GotoAfterRa ==
    /\ op["goto"] = "ra" /\ pc["goto"] = "idle" /\ CanRun("goto")
    /\ data' = [data EXCEPT !["goto"] = <<>>]
    /\ IF Len(data["goto"]) < 2
       THEN /\ op' = [op EXCEPT !["goto"] = "fault"]
            /\ trail' = Trail("fault", gphase, test)
            /\ cur' = "none"
            /\ UNCHANGED <<pc, cmd, txAfterAbort, gotoVars>>
       ELSE /\ ra_running' = (data["goto"][1] = StoppedByte)
            /\ cur' = Hold("goto")
            /\ IF ~dec_running
               THEN /\ GotoTalk(DEC_GOTO_RUN, AbortFlag)
                    /\ op' = [op EXCEPT !["goto"] = "dec"]
                    /\ UNCHANGED <<test, trail>>
               ELSE /\ test' = (test \/ (dec_running /\ ra_running'))
                    /\ op' = [op EXCEPT !["goto"] = "head"]
                    /\ UNCHANGED <<pc, cmd, txAfterAbort, trail>>
            /\ UNCHANGED <<gphase, dec_running>>
    /\ UNCHANGED <<impl, angleVars, auxVars, reads, lock, event, identity,
                   RS232_QUEUE, my_id,
                   flagVars, mountVars, nSent, inflight, interleaved,
                   arrivals, arr, abortAt, ffFast, ffSlow>>

\* h1 = hex(data[0]); h2 = hex(data[1]); dec_running = (h1 == hex(255));
\* if dec_running and ra_running: test = True  (222-233 / 268-279)
GotoAfterDec ==
    /\ op["goto"] = "dec" /\ pc["goto"] = "idle" /\ CanRun("goto")
    /\ data' = [data EXCEPT !["goto"] = <<>>]
    /\ IF Len(data["goto"]) < 2
       THEN /\ op' = [op EXCEPT !["goto"] = "fault"]
            /\ trail' = Trail("fault", gphase, test)
            /\ cur' = "none"
            /\ UNCHANGED gotoVars
       ELSE /\ dec_running' = (data["goto"][1] = StoppedByte)
            /\ test' = (test \/ (dec_running' /\ ra_running))
            /\ op' = [op EXCEPT !["goto"] = "head"]
            /\ cur' = Hold("goto")
            /\ UNCHANGED <<gphase, ra_running, trail>>
    /\ UNCHANGED <<impl, angleVars, auxVars, reads, lock, event, identity,
                   RS232_QUEUE, pc, my_id,
                   cmd, flagVars, mountVars, nSent, inflight, interleaved,
                   arrivals, arr, abortAt, ffFast, ffSlow, txAfterAbort>>

\* GotoSlow1 submitting the motor 2 frame a second time.
GotoSlow1_Mot2Again ==
    /\ op["goto"] = "slow2" /\ pc["goto"] = "idle" /\ CanRun("goto")
    /\ GotoTalk(GOTO_MOT2_SLOW, AbortFlag)
    /\ data' = [data EXCEPT !["goto"] = <<>>]
    /\ op' = [op EXCEPT !["goto"] = "slow1"]
    /\ cur' = Hold("goto")
    /\ UNCHANGED <<impl, angleVars, auxVars, reads, lock, event, identity,
                   RS232_QUEUE, my_id,
                   gotoVars, flagVars, mountVars, nSent, inflight,
                   interleaved, arrivals, arr, abortAt, ffFast, ffSlow, trail>>

\* data = self.RS232_Talk(mot1_slow)  (236-238 / 282-284)
GotoSlow1 ==
    /\ op["goto"] = "slow2" /\ pc["goto"] = "idle" /\ CanRun("goto")
    /\ GotoTalk(GOTO_MOT1_SLOW, AbortFlag)
    /\ data' = [data EXCEPT !["goto"] = <<>>]
    /\ op' = [op EXCEPT !["goto"] = "slow1"]
    /\ cur' = Hold("goto")
    /\ UNCHANGED <<impl, angleVars, auxVars, reads, lock, event, identity,
                   RS232_QUEUE, my_id,
                   gotoVars, flagVars, mountVars, nSent, inflight,
                   interleaved, arrivals, arr, abortAt, ffFast, ffSlow, trail>>

\* self.GOTO_RUNNING = False; return 0  (275-276)
\* self.GOTO_RUNNING = False;
\* await self._change_motion_status(MotionStatus.POSITIONED)  (321-322)
GotoFinish ==
    /\ op["goto"] = "finish" /\ CanRun("goto")
    /\ GOTO_RUNNING' = FALSE
    /\ goto_ret' = IF impl = "thread" THEN "0" ELSE "None"
    /\ motion_status' = IF impl = "task" THEN "POSITIONED" ELSE motion_status
    /\ op' = [op EXCEPT !["goto"] = "done"]
    /\ trail' = Trail("done", gphase, test)
    /\ cur' = "none"
    /\ UNCHANGED <<impl, angleVars, extVars, rs232_init, offTurn, reads, talkVars,
                   gotoVars, GOTO_IN_STOP, abort_event,
                   mountVars, nSent, inflight, interleaved, arrivals, arr,
                   abortAt, ffFast, ffSlow, txAfterAbort>>

Goto ==
    \/ GotoEnter \/ GotoSetRunning \/ GotoResetStop \/ GotoFast1
    \/ GotoLoopInit \/ GotoLoopHead \/ GotoAfterRa \/ GotoAfterDec
    \/ GotoSlow1 \/ GotoFinish

(***************************************************************************)
(* Abort: TelescopeComm.STOP_GOTO (279-285),                               *)
(* piggyBackTelescope.stop_motion (743-764), and the abort_event handed to *)
(* __move (223-229).  The caller of the stop operation is "stop".          *)
(***************************************************************************)
\* The stop operation is invoked against a running GOTO.  stop_motion
\* first awaits self._change_motion_status(MotionStatus.ABORTING) (750),
\* which hands the event loop to the framework.
StopEnter ==
    /\ op["stop"] = "init" /\ CanRun("stop")
    /\ GOTO_RUNNING
    /\ motion_status' = IF impl = "task" THEN "ABORTING" ELSE motion_status
    /\ op' = [op EXCEPT !["stop"] = "setflag"]
    /\ cur' = "none"
    /\ UNCHANGED <<impl, angleVars, extVars, rs232_init, goto_ret, offTurn, reads,
                   talkVars, gotoVars, flagVars, mountVars,
                   obsVars>>

\* self.GOTO_IN_STOP = True; data = self.RS232_Talk(self.GOTO_STOP)
\* (283-284 / 753-754)
StopSetFlag ==
    /\ op["stop"] = "setflag" /\ CanRun("stop")
    /\ GOTO_IN_STOP' = TRUE
    /\ Call("stop", GOTO_STOP)
    /\ abortAt' = IF abortAt = "none" THEN AbortPoint ELSE abortAt
    /\ op' = [op EXCEPT !["stop"] = "talk"]
    /\ cur' = Hold("stop")
    /\ UNCHANGED <<impl, angleVars, auxVars, reads, lock, event, identity,
                   RS232_QUEUE, my_id,
                   data, gotoVars, GOTO_RUNNING, abort_event, mountVars,
                   nSent, inflight, interleaved, arrivals, arr, ffFast,
                   ffSlow, txAfterAbort, trail>>

\* print(data) and return  (285).  stop_motion goes on with
\* await self.MOTION_MOT1(self, level = 0) (758): the bound method gets
\* self as level and level = 0 again, a TypeError that leaves stop_motion.
StopReturn ==
    /\ op["stop"] = "talk" /\ pc["stop"] = "idle" /\ CanRun("stop")
    /\ data' = [data EXCEPT !["stop"] = <<>>]
    /\ op' = [op EXCEPT !["stop"] = IF impl = "thread" THEN "done" ELSE "fault"]
    /\ cur' = "none"
    /\ UNCHANGED <<impl, angleVars, auxVars, reads, lock, event, identity,
                   RS232_QUEUE, pc, my_id,
                   cmd, gotoVars, flagVars, mountVars, obsVars>>

\* The framework sets the abort_event it handed to the running slew.  It
\* runs on the same event loop, so only while no task holds the loop.
AbortMove ==
    /\ impl = "task" /\ cur = "none"
    /\ op["goto"] \notin {"init", "done", "fault"}
    /\ ~abort_event
    /\ abort_event' = TRUE
    /\ abortAt' = IF abortAt = "none" THEN AbortPoint ELSE abortAt
    /\ UNCHANGED <<impl, angleVars, auxVars, cur, op, reads, talkVars,
                   gotoVars, GOTO_IN_STOP,
                   GOTO_RUNNING, mountVars, nSent, inflight, interleaved,
                   arrivals, arr, ffFast, ffSlow, txAfterAbort, trail>>

Stop == StopEnter \/ StopSetFlag \/ StopReturn

(***************************************************************************)
(* Position polling: TelescopeComm.GET_MOT1MOT2 (437-440),                 *)
(* piggyBackTelescope.get_radec (628-665): motor 1 is read, then motor 2.  *)
(* The caller is "poll"; reads counts the angle reads it has issued.       *)
(***************************************************************************)
\* data = self.RS232_Talk(self.GET_MOT1_COMMAND)  (403 / 698), and once
\* it has returned data = self.RS232_Talk(self.GET_MOT2_COMMAND) (422 / 723)
PollGet ==
    /\ \/ op["poll"] = "init"
       \/ op["poll"] = "get" /\ pc["poll"] = "idle" /\ reads % 2 = 1
    /\ rs232_init /\ CanRun("poll")
    /\ reads < MaxReads
    /\ Call("poll", IF reads % 2 = 0 THEN GET_MOT1_COMMAND ELSE GET_MOT2_COMMAND)
    /\ reads' = reads + 1
    /\ data' = [data EXCEPT !["poll"] = <<>>]
    /\ op' = [op EXCEPT !["poll"] = "get"]
    /\ cur' = Hold("poll")
    /\ UNCHANGED <<impl, angleVars, auxVars, lock, event, identity,
                   RS232_QUEUE, my_id,
                   gotoVars, flagVars, mountVars, obsVars>>

\* Both angles are read (or the bound on angle reads is reached): the
\* caller returns and may poll again.
PollReturn ==
    /\ op["poll"] = "get" /\ pc["poll"] = "idle" /\ CanRun("poll")
    /\ reads % 2 = 0 \/ reads >= MaxReads
    /\ data' = [data EXCEPT !["poll"] = <<>>]
    /\ op' = [op EXCEPT !["poll"] = IF reads < MaxReads THEN "init" ELSE "done"]
    /\ cur' = "none"
    /\ UNCHANGED <<impl, angleVars, auxVars, reads, lock, event, identity,
                   RS232_QUEUE, pc, my_id,
                   cmd, gotoVars, flagVars, mountVars, obsVars>>

Poll == PollGet \/ PollReturn

(***************************************************************************)
(* Tracking: piggyBackTelescope.tracking (770-825), a coroutine of the     *)
(* task version only.  It is run by the caller "poll" between two polls.   *)
(***************************************************************************)
MaxTracks == 1

\* The rate pairs given to tracking.
TrackCalls == {<<15, -15>>, <<-15, 15>>}

\* np.sign(rate) >= 0 selects POS_MOTn_TRACKING, else NEG_MOTn_TRACKING
\* (813-821).  The frame stands for opcode + rate bytes + "0000".
TrackFrame(axis, rate) ==
    IF rate >= 0
    THEN (IF axis = 1 THEN POS_MOT1_TRACKING ELSE POS_MOT2_TRACKING)
    ELSE (IF axis = 1 THEN NEG_MOT1_TRACKING ELSE NEG_MOT2_TRACKING)

\* The tracking frames written for axis 1 and for axis 2 so far.
TracksSent(axis) ==
    IF axis = 1
    THEN nSent[POS_MOT1_TRACKING] + nSent[NEG_MOT1_TRACKING]
    ELSE nSent[POS_MOT2_TRACKING] + nSent[NEG_MOT2_TRACKING]

\* await self._change_motion_status(MotionStatus.TRACKING)  (775), which
\* hands the event loop to the framework.
TrackEnter ==
    /\ impl = "task" /\ rs232_init
    /\ op["poll"] = "init" /\ CanRun("poll")
    /\ TracksSent(1) < MaxTracks
    /\ motion_status' = "TRACKING"
    /\ op' = [op EXCEPT !["poll"] = "trackset"]
    /\ cur' = "none"
    /\ UNCHANGED <<impl, angleVars, extVars, rs232_init, goto_ret, offTurn,
                   reads, talkVars, gotoVars, flagVars, mountVars, obsVars>>

\* self.tracking_rate_mot1 = rate_mot1; self.tracking_rate_mot2 = rate_mot2
\* (776-777); the frames are built (779-821);
\* data = await self.RS232_Talk(MOT1_TRACKING_COMMAND)  (823)
TrackFirst ==
    /\ op["poll"] = "trackset" /\ CanRun("poll")
    /\ \E r \in TrackCalls :
         /\ tracking_rate_mot1' = r[1]
         /\ tracking_rate_mot2' = r[2]
         /\ Call("poll", TrackFrame(1, r[1]))
    /\ op' = [op EXCEPT !["poll"] = "track1"]
    /\ cur' = Hold("poll")
    /\ UNCHANGED <<impl, angleVars, statusVars, offTurn, ioFailed, calc,
                   reads, lock, event, identity, RS232_QUEUE, my_id, data,
                   gotoVars, flagVars, mountVars, obsVars>>

\* TrackSecond with a suspension before the second RS232_Talk.
TrackSecond_Yields ==
    /\ op["poll"] = "track1" /\ pc["poll"] = "idle" /\ CanRun("poll")
    /\ Call("poll", TrackFrame(2, tracking_rate_mot2))
    /\ op' = [op EXCEPT !["poll"] = "track2"]
    /\ cur' = "none"
    /\ UNCHANGED <<impl, angleVars, auxVars, reads, lock, event, identity,
                   RS232_QUEUE, my_id, data, gotoVars, flagVars, mountVars,
                   obsVars>>

\* data = await self.RS232_Talk(MOT2_TRACKING_COMMAND)  (824): the first
\* call has returned and the coroutine goes on without a suspension.
TrackSecond ==
    /\ op["poll"] = "track1" /\ pc["poll"] = "idle" /\ CanRun("poll")
    /\ Call("poll", TrackFrame(2, tracking_rate_mot2))
    /\ op' = [op EXCEPT !["poll"] = "track2"]
    /\ cur' = Hold("poll")
    /\ UNCHANGED <<impl, angleVars, auxVars, reads, lock, event, identity,
                   RS232_QUEUE, my_id, data, gotoVars, flagVars, mountVars,
                   obsVars>>

\* log.info(data) and return  (825)
TrackReturn ==
    /\ op["poll"] = "track2" /\ pc["poll"] = "idle" /\ CanRun("poll")
    /\ data' = [data EXCEPT !["poll"] = <<>>]
    /\ op' = [op EXCEPT !["poll"] = "init"]
    /\ cur' = "none"
    /\ UNCHANGED <<impl, angleVars, auxVars, reads, lock, event, identity,
                   RS232_QUEUE, pc, my_id, cmd, gotoVars, flagVars,
                   mountVars, obsVars>>

Track == TrackEnter \/ TrackFirst \/ TrackSecond \/ TrackReturn

(***************************************************************************)
(* Initialisation: TelescopeComm.__init__ (86-93),                         *)
(* piggyBackTelescope.init (493-525).                                      *)
(***************************************************************************)
\* self.readClean() (91, 170-183) / await self.ReadClean() (515, 529-543):
\* self.ser.readline() is called until it returns nothing.  No ticket is
\* taken: the port is read with RS232_QUEUE as it is.  The telescope is
\* then configured; the task version ends with status IDLE and
\* self.rs232_init = True (520-521).
ReadClean ==
    /\ ~rs232_init /\ cur = "none"
    /\ rs232_init' = TRUE
    /\ motion_status' = IF impl = "task" THEN "IDLE" ELSE motion_status
    /\ offTurn' = offTurn \cup {"readClean"}
    /\ UNCHANGED <<impl, angleVars, extVars, goto_ret, cur, op, reads, talkVars,
                   gotoVars, flagVars, mountVars, obsVars>>

(***************************************************************************)
(* The system.                                                             *)
(***************************************************************************)
Next ==
    \/ \E t \in Threads : RS232_Talk(t)
    \/ Goto
    \/ Stop
    \/ AbortMove
    \/ Poll
    \/ Track
    \/ ReadClean

Spec == Init /\ [][Next]_vars

\* The steps of caller t once its operation has been requested.  The
\* requests themselves (GotoEnter, StopEnter, a new round of PollGet,
\* AbortMove) are up to the environment.
Step(t) ==
    \/ RS232_Talk(t)
    \/ (t = "goto" /\ op["goto"] # "init" /\ Goto)
    \/ (t = "stop" /\ op["stop"] # "init" /\ Stop)
    \/ (t = "poll" /\ op["poll"] # "init" /\ (Poll \/ Track))

\* Fair scheduling: a caller that can take a step eventually takes one.
FairSpec == Spec /\ \A t \in Threads : WF_vars(Step(t))

\* One event loop: whenever some task that has been started can take a
\* step, the loop runs one.
LoopFairSpec == Spec /\ WF_vars(\E t \in Threads : Step(t))

(***************************************************************************)
(* Properties.                                                             *)
(***************************************************************************)
\* The caller has appended its ticket and has not returned yet.
Queued(t) == arr[t] # 0
\* The caller has written its frame and its read has not completed.
InTransaction(t) == pc[t] = "read"
\* The caller's read has completed; it has not returned yet.
ReadDone(t) == pc[t] \in {"pop", "set"}

\* C1: at most one caller is between its serial write and the completion of
\* its serial read, and no write or read reaches the transport inside
\* another caller's write+read pair.
C1_Exclusive ==
    /\ ~interleaved
    /\ Cardinality({t \in Threads : InTransaction(t)}) <= 1

\* C1 witness: a caller is inside its write+read while another caller,
\* queued behind it, has tested its turn and waits.
C1_Witness ==
    \E t, u \in Threads :
        /\ t # u /\ InTransaction(t)
        /\ pc[u] \in {"wait", "blocked"}
        /\ Len(RS232_QUEUE) >= 2

\* C2: if t appended its ticket before u, u does not begin its write before
\* t has completed its write+read.
C2_EnqueueOrder ==
    \A t, u \in Threads :
        (Queued(t) /\ Queued(u) /\ arr[t] < arr[u]
            /\ (InTransaction(u) \/ ReadDone(u)))
        => ReadDone(t)

\* C2 witness: u, queued behind t, is inside its write+read right after t
\* completed its own and before t has returned.
C2_Witness ==
    \E t, u \in Threads :
        /\ Queued(t) /\ Queued(u) /\ arr[t] < arr[u]
        /\ pc[t] = "set" /\ InTransaction(u)

\* C3: (thread-based) under fair scheduling every caller that has appended
\* its ticket eventually performs its write+read and returns.
C3_ThreadServed ==
    \A t \in Threads : (impl = "thread" /\ Queued(t)) ~> ~Queued(t)

\* C4: (task-based) under cooperative scheduling on one event loop, whenever
\* a task has appended its ticket, a state follows in which every task that
\* had appended has done its write+read and returned.
C4_TaskServed ==
    (impl = "task" /\ \E t \in Threads : Queued(t))
        ~> (\A t \in Threads : ~Queued(t))

\* C4 witness: a task has done its write+read and is about to return while
\* the slew task is suspended in its own operation.
C4_Witness ==
    /\ impl = "task"
    /\ pc["poll"] = "set" /\ Queued("poll")
    /\ op["goto"] = "entry"

\* C5: an abort raised while the GOTO is in its fast-phase poll loop ends
\* the GOTO without any slow-phase frame: it never enters SlowSlew.
C5_AbortSkipsSlow ==
    abortAt = "FastLoop" =>
        /\ \A f \in SlowFrames : nSent[f] = 0
        /\ \A i \in 1..Len(trail) : trail[i] # "SlowSlew"

\* C6: a GOTO sends each fast-phase and each slow-phase frame at most once,
\* both fast frames before either slow frame, and without abort it ends
\* Converged after Idle, FastSlew, SlowSlew with exactly one of each frame.
C6_OneFramePerPhase ==
    /\ \A f \in FastFrames \cup SlowFrames : nSent[f] <= 1
    /\ (\E f \in SlowFrames : nSent[f] > 0) => \A f \in FastFrames : nSent[f] = 1
    /\ (abortAt = "none" /\ op["goto"] = "done") =>
          /\ trail = <<"Idle", "FastSlew", "SlowSlew", "Converged">>
          /\ \A f \in FastFrames \cup SlowFrames : nSent[f] = 1

\* C6 witness: a GOTO converged without abort after an axis answered
\* "still moving" to a poll.
C6_Witness ==
    /\ abortAt = "none" /\ op["goto"] = "done"
    /\ movingLeft < MaxMoving
    /\ GotoState = "Converged"

\* C7: without abort, the slow-phase frames are submitted only after both
\* axes answered 0xFF in the fast phase, and the GOTO ends only after both
\* axes answered 0xFF again to polls issued after the slow-phase frames.
C7_PhaseGates ==
    abortAt = "none" =>
        /\ (\E f \in SlowFrames : cmd["goto"] = f \/ nSent[f] > 0)
              => \A a \in PollFrames : ffFast[a]
        /\ op["goto"] \in {"finish", "done"} => \A a \in PollFrames : ffSlow[a]

\* C7 witness: a GOTO ended without abort, each axis having answered 0xFF
\* in both phases, while another caller used the line.
C7_Witness ==
    /\ abortAt = "none" /\ op["goto"] = "done"
    /\ \A a \in PollFrames : ffFast[a] /\ ffSlow[a]
    /\ nSent[GET_MOT1_COMMAND] > 0

\* C8: under fair scheduling, with no abort requested, a GOTO that was
\* started eventually ends, also while other callers use the queue.
C8_GotoReturns ==
    [](abortAt = "none") =>
        ((op["goto"] # "init") ~> (op["goto"] \in {"done", "fault"}))

\* C9: once the abort flag is set while the GOTO is in a poll loop, the
\* GOTO submits no further transaction of its own.
C9_NoTxAfterAbort ==
    abortAt \in {"FastLoop", "SlowLoop"} => txAfterAbort = 0

\* No stop operation is under way.
StopIdle == op["stop"] \in {"init", "done", "fault"} /\ pc["stop"] = "idle"

\* C10: an abort of a running GOTO puts exactly one stop frame on the
\* transport: never more than one, and one once the GOTO has ended and no
\* stop operation is under way.
C10_OneStopFrame ==
    /\ nSent[GOTO_STOP] <= 1
    /\ (abortAt # "none" /\ op["goto"] = "done" /\ StopIdle)
          => nSent[GOTO_STOP] = 1

\* What the GOTO has handed to its caller: the value returned and, in the
\* task version, the motion status it has set.
GotoOutcome == <<goto_ret, motion_status>>

\* What a GOTO that converged hands to its caller: return 0
\* (TelescopeComm.py 275-276); no value, status POSITIONED
\* (piggybacktelescope.py 321-323).
ConvergedOutcome ==
    IF impl = "thread" THEN <<"0", "none">> ELSE <<"None", "POSITIONED">>

\* C11: a GOTO that has ended shows the outcome of a converged GOTO exactly
\* when it converged: a GOTO ended by an abort shows another outcome.
C11_AbortDistinct ==
    op["goto"] = "done" =>
        ((GotoState = "Converged") <=> (GotoOutcome = ConvergedOutcome))

\* The caller whose ticket is the head waits on the event and no caller is
\* about to set it: no transaction is served any more.
QueueStuck ==
    \E t \in Threads :
        /\ pc[t] = "blocked" /\ Index(RS232_QUEUE, my_id[t]) = 0
        /\ \A u \in Threads : pc[u] # "set"

\* The abort flag is set and the GOTO is in one of its poll loops.
AbortedInLoop == AbortFlag /\ op["goto"] \in {"head", "ra", "dec"}

\* The GOTO waits for another caller: for the lock, or for its turn.
GotoWaits ==
    \/ pc["goto"] = "blocked"
    \/ LockBlocked("goto")

\* C12: once the abort flag is set in a poll loop, the GOTO submits at most
\* three more transactions whatever the axes answer (the poll of motor 2
\* of the running iteration and the two slow-phase frames), and until it
\* has ended it can always take its next step, unless it waits for
\* another caller in the queue.
C12_AbortReturns ==
    abortAt \in {"FastLoop", "SlowLoop"} =>
        /\ txAfterAbort <= 3
        /\ \/ op["goto"] \in {"done", "fault"}
           \/ GotoWaits
           \/ ENABLED Step("goto")

\* C12 witness: the GOTO has returned after an abort raised in a poll loop
\* although no axis ever answered 0xFF.
C12_Witness ==
    /\ abortAt \in {"FastLoop", "SlowLoop"} /\ op["goto"] = "done"
    /\ \A a \in PollFrames : ~ffFast[a] /\ ~ffSlow[a]

\* C13: a caller that waits for its turn re-checks its queue position after
\* a bounded wait, also when the wake signal was missed or cleared.
C13_WaiterRechecks ==
    \A t \in Threads : (pc[t] = "blocked") ~> (pc[t] = "chk")

\* The caller is between the append of its ticket and its removal.
HoldsTicket(t) ==
    pc[t] \in {"clr1", "chk", "wait", "blocked", "clr2", "write", "read", "pop"}

\* The ticket of caller t is in the list.
InQueue(t) == \E i \in 1..Len(RS232_QUEUE) : RS232_QUEUE[i] = my_id[t]

\* C14: every caller that waits for its turn or is inside its write+read
\* has its own ticket in RS232_QUEUE, tickets of different callers differ,
\* and the list shrinks only by the removal of the head by the caller
\* whose ticket the head is.
C14_TicketHeld ==
    /\ [](\A t \in Threads : HoldsTicket(t) => InQueue(t))
    /\ [](\A t, u \in Threads :
            (t # u /\ HoldsTicket(t) /\ HoldsTicket(u)) => my_id[t] # my_id[u])
    /\ [][RS232_QUEUE' # RS232_QUEUE /\ Len(RS232_QUEUE') <= Len(RS232_QUEUE)
            => \E t \in Threads :
                  /\ pc[t] = "pop" /\ pc'[t] = "set"
                  /\ RS232_QUEUE # <<>> /\ RS232_QUEUE[1] = my_id[t]
                  /\ RS232_QUEUE' = Tail(RS232_QUEUE)]_vars

\* C14 witness: a caller has just removed its head ticket while another
\* caller, whose ticket is now the head, still waits for its turn.
C14_Witness ==
    \E t, u \in Threads :
        /\ t # u /\ pc[t] = "set"
        /\ pc[u] \in {"wait", "blocked"}
        /\ RS232_QUEUE # <<>> /\ RS232_QUEUE[1] = my_id[u]

\* C15: enqueues are atomic.  The counter equals the number of tickets
\* issued so far (mod M), the n-th ticket appended is n (mod M), and the
\* list holds the tickets of the queued callers in the order of issue.
C15_AtomicEnqueue ==
    /\ identity
         = (arrivals + Cardinality({t \in Threads : pc[t] = "app"})) % Modulus
    /\ Cardinality({t \in Threads : pc[t] \in {"inc", "app"}}) <= 1
    /\ \A t \in Threads : Queued(t) => my_id[t] = arr[t] % Modulus
    /\ \A i, j \in 1..Len(RS232_QUEUE) :
          i < j => \E t, u \in Threads :
                     /\ Queued(t) /\ Queued(u) /\ arr[t] < arr[u]
                     /\ RS232_QUEUE[i] = my_id[t] /\ RS232_QUEUE[j] = my_id[u]

\* C15 witness: one caller is between the increment and the append while
\* a second waits for the lock and the ticket of a third is in the list.
C15_Witness ==
    \E t, u, v \in Threads :
        /\ pc[t] = "app" /\ pc[u] = "acq1" /\ Queued(v)
        /\ identity = 3

\* The GOTO has the reply to one of its status polls in hand and the reply
\* is shorter than the two bytes the loop body reads.
GotoShortReply ==
    /\ op["goto"] \in {"ra", "dec"} /\ pc["goto"] = "idle"
    /\ Len(data["goto"]) < 2

\* C19: a reply of unexpected length to one of the GOTO's status polls does
\* not terminate the GOTO: the step that consumes the reply never leaves
\* the GOTO with a fault.
C19_ShortReplyKeepsGoto ==
    [][GotoShortReply => op'["goto"] # "fault"]_vars

\* C20: the serial port is written and read only by a caller whose ticket
\* is at the head of RS232_QUEUE: nothing has touched the port outside a
\* queue turn.
C20_OnlyAtTurn == offTurn = {}

(***************************************************************************)
(* The release step of RS232_Talk on a broken queue                        *)
(* (TelescopeComm.py 125-135, piggybacktelescope.py 477-489).              *)
(* With one instance and tickets below the modulus the list is never       *)
(* empty and never headed by a foreign ticket at pop(0); the handler is    *)
(* therefore started in that situation: an angle read has been sent and    *)
(* answered, and RS232_QUEUE, a public attribute, is empty or headed by a  *)
(* ticket that is not the caller's.                                        *)
(***************************************************************************)
\* A ticket no caller of the bounded runs is given.
ForeignTicket == ThreadModulus - 1

ReleaseInit ==
    /\ impl \in {"thread", "task"}
    /\ RS232_QUEUE \in {<<>>, <<ForeignTicket>>}
    /\ cur = Hold("poll")
    /\ lock = "none"
    /\ event = FALSE
    /\ identity = 1
    /\ pc = [t \in Threads |-> IF t = "poll" THEN "pop" ELSE "idle"]
    /\ my_id = [t \in Threads |-> IF t = "poll" THEN 1 ELSE 0]
    /\ cmd = [t \in Threads |-> IF t # "poll" THEN ""
                                ELSE IF MaxReads % 2 = 1 THEN GET_MOT1_COMMAND
                                ELSE GET_MOT2_COMMAND]
    /\ data = [t \in Threads |-> IF t = "poll" THEN <<35>> ELSE <<>>]
    /\ op = [t \in Threads |-> IF t = "poll" THEN "get" ELSE "init"]
    /\ gphase = "fast"
    /\ test = FALSE
    /\ ra_running = FALSE
    /\ dec_running = FALSE
    /\ GOTO_IN_STOP = FALSE
    /\ GOTO_RUNNING = FALSE
    /\ abort_event = FALSE
    /\ reads = MaxReads
    /\ movingLeft = MaxMoving
    /\ shortLeft = MaxShort
    /\ nSent = [f \in Frames |-> IF f = cmd["poll"] THEN 1 ELSE 0]
    /\ inflight = "none"
    /\ interleaved = FALSE
    /\ arrivals = 1
    /\ arr = [t \in Threads |-> IF t = "poll" THEN 1 ELSE 0]
    /\ abortAt = "none"
    /\ ffFast = [a \in {RA_GOTO_RUN, DEC_GOTO_RUN} |-> FALSE]
    /\ ffSlow = [a \in {RA_GOTO_RUN, DEC_GOTO_RUN} |-> FALSE]
    /\ txAfterAbort = 0
    /\ trail = <<"Idle">>
    /\ rs232_init = TRUE
    /\ motion_status = IF impl = "task" THEN "IDLE" ELSE "none"
    /\ goto_ret = "none"
    /\ mot1 = ParkAngle
    /\ mot2 = ParkAngle
    /\ areads = 0
    /\ last = NoRead
    /\ offTurn = {"readClean"}
    /\ ioFailed = {}
    /\ calc = NoCalc
    /\ tracking_rate_mot1 = 0
    /\ tracking_rate_mot2 = 0

\* The telescope is initialised: every operation but the initialisation.
ReleaseNext ==
    \/ \E t \in Threads : RS232_Talk(t)
    \/ Goto
    \/ Stop
    \/ AbortMove
    \/ PollReturn

ReleaseSpec == ReleaseInit /\ [][ReleaseNext]_vars

\* Caller t is at the release step and the protocol is broken: the list is
\* empty, or its head is not t's ticket.
Breach(t) ==
    /\ pc[t] = "pop"
    /\ RS232_QUEUE = <<>> \/ RS232_QUEUE[1] # my_id[t]

\* C16: a queue protocol violation at the release step surfaces as a fault
\* to the caller: the release step of a caller in breach does not go on to
\* the normal return of the reply.
C16_BreachFaults ==
    [][\A t \in Threads :
          (Breach(t) /\ pc'[t] # pc[t]) => op'[t] = "fault"]_vars

(***************************************************************************)
(* Angle reads: TelescopeComm.GET_MOT1 / GET_MOT2 / GET_MOT1MOT2           *)
(* (399-440), piggyBackTelescope.GET_MOT1 / GET_MOT2 (694-740), called     *)
(* one after the other with no other caller inside RS232_Talk.             *)
(***************************************************************************)
\* Longest reply the mount gives to an angle request in the runs.
MaxReplyLen == 5

\* Angle reads done in a run.
MaxAngleReads == 2

\* if len(data) == 4:  (piggybacktelescope.py 699, 724)
ReplyLen == 4

\* Byte values of the replies: one below 16 (one hex digit), one above.
AngleBytes == {10, 255}

\* What ser.readline() may return to an angle request: nothing after a
\* timeout, a cut reply, a full one, one that is too long.
AngleReplies == UNION {[1..n -> AngleBytes] : n \in 0..MaxReplyLen}

\* hex(b)[2:] : the hexadecimal digits of b >= 0, most significant first.
RECURSIVE hex(_)
hex(b) == IF b < 16 THEN <<b>> ELSE Append(hex(b \div 16), b % 16)

\* if len(h) < 2: h = "0" + h  (408-413 / 705-710)
pad(h) == IF Len(h) < 2 THEN <<0>> \o h ELSE h

\* int(h, 16)
RECURSIVE int16(_)
int16(h) ==
    IF h = <<>> THEN 0
    ELSE 16 * int16(SubSeq(h, 1, Len(h) - 1)) + h[Len(h)]

\* decodeAngle(h1, h2, h3)  (470-479 / 355-364): 2^16 v1 + 2^8 v2 + v3;
\* the angle is this integer times 360 / 2^24.
decodeAngle(h1, h2, h3) == 65536 * int16(h1) + 256 * int16(h2) + int16(h3)

\* GET_MOT1MOT2 has read motor 1 and is about to read motor 2.
Pending ==
    last.via = "GET_MOT1MOT2" /\ last.axis = 1 /\ ~last.fault

\* One angle read of motor axis, called directly (via = "direct", as
\* GET_RADEC 340-341 and get_radec 635-636 do) or from GET_MOT1MOT2.
\* data = RS232_Talk(GET_MOTn_COMMAND), alone in the queue: one ticket is
\* issued, appended and popped, and the event is left set.
\* Thread version (403-416): data[0], data[1], data[2] are read whatever
\* the length, IndexError below three bytes; the angle is returned and
\* only GET_MOT1MOT2 (438-439) stores it.  Task version (698-716): a
\* reply of four bytes is decoded and stored, any other leaves the cache;
\* the cache is returned.
AngleRead(axis, via) ==
    /\ rs232_init /\ areads < MaxAngleReads
    /\ \E r \in AngleReplies :
         LET cached == IF axis = 1 THEN mot1 ELSE mot2
             fault == impl = "thread" /\ Len(r) < 3
             d == IF Len(r) >= 3
                  THEN decodeAngle(pad(hex(r[1])), pad(hex(r[2])),
                                   pad(hex(r[3])))
                  ELSE -1
             store == IF impl = "task" THEN Len(r) = ReplyLen
                      ELSE via = "GET_MOT1MOT2" /\ ~fault
             ret == IF fault THEN -1
                    ELSE IF impl = "task" /\ Len(r) # ReplyLen THEN cached
                    ELSE d
         IN /\ mot1' = IF axis = 1 /\ store THEN d ELSE mot1
            /\ mot2' = IF axis = 2 /\ store THEN d ELSE mot2
            /\ last' = [axis |-> axis, reply |-> r, ret |-> ret,
                        fault |-> fault, via |-> via, was |-> <<mot1, mot2>>]
    /\ areads' = areads + 1
    /\ identity' = (identity + 1) % Modulus
    /\ arrivals' = arrivals + 1
    /\ event' = TRUE
    /\ LET f == IF axis = 1 THEN GET_MOT1_COMMAND ELSE GET_MOT2_COMMAND
       IN nSent' = [nSent EXCEPT ![f] = @ + 1]
    /\ UNCHANGED <<impl, cur, op, reads, lock, RS232_QUEUE, pc, my_id, cmd,
                   data, gotoVars, flagVars, mountVars, auxVars, inflight,
                   interleaved, arr, abortAt, ffFast, ffSlow, txAfterAbort,
                   trail>>

GET_MOT1 == ~Pending /\ AngleRead(1, "direct")

GET_MOT2 == ~Pending /\ AngleRead(2, "direct")

\* self.mot1 = self.GET_MOT1(); self.mot2 = self.GET_MOT2()  (438-439)
GET_MOT1MOT2 ==
    /\ impl = "thread"
    /\ \/ ~Pending /\ AngleRead(1, "GET_MOT1MOT2")
       \/ Pending /\ AngleRead(2, "GET_MOT1MOT2")

AngleNext == ReadClean \/ GET_MOT1 \/ GET_MOT2 \/ GET_MOT1MOT2

AngleSpec == Init /\ [][AngleNext]_vars

\* An angle read has been done and its reply had / had not the expected
\* length.
ReadWrongLength == last.axis # 0 /\ Len(last.reply) # ReplyLen
ReadExpectedLength == last.axis # 0 /\ Len(last.reply) = ReplyLen

\* C17: an angle read whose reply has not the expected length returns the
\* cached angle of its axis, leaves both cached angles as they were and
\* raises no fault.
C17_WrongLengthCached ==
    ReadWrongLength =>
        /\ ~last.fault
        /\ last.ret = last.was[last.axis]
        /\ <<mot1, mot2>> = last.was

\* C18: an angle read whose reply has the expected length stores the angle
\* decoded from the first three bytes as the cached angle of its axis,
\* returns it, and leaves the cached angle of the other axis unchanged.
C18_ExpectedLengthStored ==
    ReadExpectedLength =>
        LET r == last.reply
            d == decodeAngle(pad(hex(r[1])), pad(hex(r[2])), pad(hex(r[3])))
        IN /\ last.ret = d
           /\ (IF last.axis = 1 THEN mot1 ELSE mot2) = d
           /\ (IF last.axis = 1 THEN mot2 ELSE mot1) = last.was[3 - last.axis]

(***************************************************************************)
(* Transport failures: self.ser.write(s) / self.ser.readline()             *)
(* (TelescopeComm.py 123-124, piggybacktelescope.py 474-475) raise         *)
(* serial.SerialException when the link is lost.  Neither call is inside a *)
(* try: the exception leaves RS232_Talk and the operation that called it,  *)
(* with the caller's ticket still in RS232_QUEUE.                          *)
(***************************************************************************)
\* Transport calls that fail in a run.
MaxFaults == 1

\* The exception leaves RS232_Talk from position at ("write" or "read").
TransportRaises(t, at) ==
    /\ pc[t] = at /\ CanRun(t)
    /\ Cardinality(ioFailed) < MaxFaults
    /\ ioFailed' = ioFailed \cup {t}
    /\ pc' = [pc EXCEPT ![t] = "idle"]
    /\ op' = [op EXCEPT ![t] = "fault"]
    /\ my_id' = [my_id EXCEPT ![t] = 0]
    /\ cmd' = [cmd EXCEPT ![t] = ""]
    /\ data' = [data EXCEPT ![t] = <<>>]
    /\ inflight' = IF inflight = t THEN "none" ELSE inflight
    /\ trail' = IF t = "goto" THEN Trail("fault", gphase, test) ELSE trail
    /\ cur' = "none"
    /\ UNCHANGED <<impl, angleVars, statusVars, offTurn, calc, trackVars,
                   reads, lock, event, identity, RS232_QUEUE, gotoVars,
                   flagVars, mountVars, nSent, interleaved, arrivals, arr,
                   abortAt, ffFast, ffSlow, txAfterAbort>>

\* TransportRaises with the failed call swallowed and made again.
SerWriteFails_Retry(t) ==
    /\ pc[t] = "write" /\ CanRun(t)
    /\ Cardinality(ioFailed) < MaxFaults
    /\ ioFailed' = ioFailed \cup {t}
    /\ cur' = Hold(t)
    /\ UNCHANGED <<impl, angleVars, statusVars, offTurn, calc, trackVars,
                   op, reads, talkVars, gotoVars, flagVars, mountVars,
                   obsVars>>

\* self.ser.write(s) raises  (123 / 474)
SerWriteFails(t) == TransportRaises(t, "write")

\* data = self.ser.readline() raises  (124 / 475)
SerReadlineFails(t) == TransportRaises(t, "read")

FaultNext ==
    \/ Next
    \/ \E t \in Threads : SerWriteFails(t)
    \/ \E t \in Threads : SerReadlineFails(t)

FaultSpec == Init /\ [][FaultNext]_vars

\* C21: a transport failure inside a transaction reaches the caller of
\* RS232_Talk as a fault and the core does not retry: a caller whose write
\* or read raised has left RS232_Talk with a fault and never re-enters it.
C21_FaultPropagates ==
    \A t \in ioFailed : op[t] = "fault" /\ pc[t] = "idle"

\* C21 witness: the write or read of a caller has raised while another
\* caller was waiting for its turn.
C21_Witness ==
    \E t \in ioFailed : \E u \in Threads \ {t} : pc[u] = "blocked"

(***************************************************************************)
(* The angle codec: encodeAngle / decodeAngle and the GOTO frame builders  *)
(* GOTO_MOT1 / GOTO_MOT2 (TelescopeComm.py 372-397, 442-479;               *)
(* piggybacktelescope.py 326-394), evaluated on a bounded set of inputs.   *)
(* An angle is a whole number of units, Sub units to one quantization step *)
(* 360 / 2^24, so that angles between two steps are inputs too.  On this   *)
(* grid the double arithmetic of the code is exact.                        *)
(***************************************************************************)
\* Units per quantization step.
Sub == 4

\* 2**24  (TelescopeComm.py 447, 478)
Steps == 16777216

\* 360 degrees, in units.
FullTurn == Sub * Steps

\* Every variable but calc.
nonCalcVars ==
    <<impl, cur, op, reads, talkVars, gotoVars, flagVars, mountVars, obsVars,
      statusVars, offTurn, angleVars, ioFailed, trackVars>>

\* The angle of u units.
Angle(u) == [u |-> u, tiny |-> FALSE]

\* A negative double closer to zero than half the spacing of the doubles
\* just below 360 (2^-45), for instance -1e-20.
TinyNegative == [u |-> 0, tiny |-> TRUE]

\* alpha % 360 on doubles (446 / 330): the remainder takes the sign of 360.
\* For a tiny negative alpha the exact result 360 - |alpha| is no double
\* and rounds to 360.0.
Mod360(a) == IF a.tiny THEN FullTurn ELSE a.u % FullTurn

\* integer = int((alpha/360) * 2**24)  (447 / 331)
encodeInteger(a) == Mod360(a) \div Sub

\* bin(n)[2:] : the binary digits of n >= 0, most significant first.
RECURSIVE bin(_)
bin(n) == IF n < 2 THEN <<n>> ELSE Append(bin(n \div 2), n % 2)

\* int(b, 2)
RECURSIVE int2(_)
int2(b) ==
    IF b = <<>> THEN 0
    ELSE 2 * int2(SubSeq(b, 1, Len(b) - 1)) + b[Len(b)]

\* s[i:j] of Python, i and j counted from 0.
Slice(s, i, j) ==
    IF i >= Len(s) THEN <<>>
    ELSE SubSeq(s, i + 1, IF j < Len(s) THEN j ELSE Len(s))

\* b = bin(integer); add = 24 - len(b[2:]); b = b[:2] + add*"0" + b[2:];
\* b1 = b[2:10]; b2 = b[10:18]; b3 = b[18:26]; each to int, to hex, padded
\* (448-466 / 332-350).  add*"0" is empty for add <= 0.
encodeBytes(integer) ==
    LET digits == bin(integer)
        add == 24 - Len(digits)
        b == (IF add > 0 THEN [k \in 1..add |-> 0] ELSE <<>>) \o digits
    IN <<pad(hex(int2(Slice(b, 0, 8)))), pad(hex(int2(Slice(b, 8, 16)))),
         pad(hex(int2(Slice(b, 16, 24))))>>

\* encodeAngle with the bytes returned least significant first.
encodeAngle_LittleEndian(a) ==
    LET h == encodeBytes(encodeInteger(a)) IN <<h[3], h[2], h[1]>>

\* encodeAngle with alpha = alpha % 360 lost.
encodeAngle_NoMod(a) == encodeBytes(a.u \div Sub)

\* encodeAngle(alpha)  (442-468 / 326-352)
encodeAngle(a) == encodeBytes(encodeInteger(a))

\* The hexadecimal digits of the opcodes of the GOTO frames (class
\* attributes, TelescopeComm.py 54-57 / piggybacktelescope.py 81-84).
OpcodeDigits(opcode) ==
    CASE opcode = GOTO_MOT1_SLOW -> <<5, 0, 0, 4, 1, 0, 1, 7>>
      [] opcode = GOTO_MOT1_FAST -> <<5, 0, 0, 4, 1, 0, 0, 2>>
      [] opcode = GOTO_MOT2_SLOW -> <<5, 0, 0, 4, 1, 1, 1, 7>>
      [] opcode = GOTO_MOT2_FAST -> <<5, 0, 0, 4, 1, 1, 0, 2>>
      [] opcode = POS_MOT1_TRACKING -> <<5, 0, 0, 3, 1, 0, 0, 6>>
      [] opcode = NEG_MOT1_TRACKING -> <<5, 0, 0, 3, 1, 0, 0, 7>>
      [] opcode = POS_MOT2_TRACKING -> <<5, 0, 0, 3, 1, 1, 0, 6>>
      [] opcode = NEG_MOT2_TRACKING -> <<5, 0, 0, 3, 1, 1, 0, 7>>

\* GOTO_MOT1(alpha, fast) / GOTO_MOT2(alpha, fast)  (372-397 / 368-394):
\* mot = opcode; mot += h1+h2+h3+"00"
GOTO_MOT(axis, a, fast) ==
    LET h == encodeAngle(a)
        opcode == IF axis = 1
                  THEN (IF fast THEN GOTO_MOT1_FAST ELSE GOTO_MOT1_SLOW)
                  ELSE (IF fast THEN GOTO_MOT2_FAST ELSE GOTO_MOT2_SLOW)
    IN OpcodeDigits(opcode) \o h[1] \o h[2] \o h[3] \o <<0, 0>>

\* Input angles: around every quarter turn from -90 to 450 degrees, on and
\* between the quantization steps; 100 degrees (to the unit); a tiny
\* negative angle.
CodecAngles ==
    {Angle(q * (FullTurn \div 4) + d) :
        q \in -1..5, d \in -(Sub + 1)..(Sub + 1)}
    \cup {Angle(100 * (FullTurn \div 360)
                 + (100 * (FullTurn % 360)) \div 360), TinyNegative}

\* Reply and payload bytes given to decodeAngle.
CodecBytes == {0, 10, 64, 128, 255}

EncodeAngle ==
    /\ \E a \in CodecAngles :
         calc' = [fn |-> "encodeAngle", in |-> a,
                  integer |-> encodeInteger(a), out |-> encodeAngle(a)]
    /\ UNCHANGED nonCalcVars

DecodeAngle ==
    /\ \E b1, b2, b3 \in CodecBytes :
         calc' = [fn |-> "decodeAngle", in |-> <<b1, b2, b3>>,
                  out |-> decodeAngle(pad(hex(b1)), pad(hex(b2)),
                                      pad(hex(b3)))]
    /\ UNCHANGED nonCalcVars

GotoFrame ==
    /\ \E axis \in {1, 2}, a \in CodecAngles, fast \in BOOLEAN :
         calc' = [fn |-> "GOTO_MOT", axis |-> axis, in |-> a, fast |-> fast,
                  integer |-> encodeInteger(a),
                  out |-> GOTO_MOT(axis, a, fast)]
    /\ UNCHANGED nonCalcVars

CodecNext == EncodeAngle \/ DecodeAngle \/ GotoFrame

CodecSpec == Init /\ [][CodecNext]_vars

\* encodeAngle has just been evaluated on an angle of [0, 360).
EncodedInRange ==
    /\ calc.fn = "encodeAngle" /\ ~calc.in.tiny
    /\ calc.in.u >= 0 /\ calc.in.u < FullTurn

\* C22: round trip of the codec.  For an angle a of [0, 360),
\* decodeAngle(encodeAngle(a)) differs from a by at most one quantization
\* step (Sub units).
C22_RoundTrip ==
    EncodedInRange =>
        LET back == Sub * decodeAngle(calc.out[1], calc.out[2], calc.out[3])
        IN back - calc.in.u <= Sub /\ calc.in.u - back <= Sub

\* C22 witness: an angle above 180 degrees that lies between two steps
\* has been encoded.
C22_Witness ==
    /\ EncodedInRange
    /\ calc.in.u % Sub # 0 /\ calc.in.u > FullTurn \div 2

\* The three big-endian bytes of n, as padded hexadecimal digits.
BigEndian(n) ==
    <<pad(hex(n \div 65536)), pad(hex((n \div 256) % 256)),
      pad(hex(n % 256))>>

\* C23: encodeAngle returns the three big-endian bytes of
\* round((angle mod 360) / 360 * 2^24).
C23_RoundingEncoder ==
    calc.fn = "encodeAngle" =>
        calc.out = BigEndian((2 * Mod360(calc.in) + Sub) \div (2 * Sub))

\* C24: fixed points of the codec.  encodeAngle(0) = (00, 00, 00),
\* encodeAngle(180) = (80, 00, 00), encodeAngle(360) = encodeAngle(0),
\* decodeAngle(40, 00, 00) = 90 degrees, and decodeAngle(b1, b2, b3) is
\* b1 * 2^16 + b2 * 2^8 + b3 steps for all bytes.
C24_FixedPoints ==
    /\ (calc.fn = "encodeAngle" /\ calc.in \in {Angle(0), Angle(FullTurn)})
          => calc.out = <<<<0, 0>>, <<0, 0>>, <<0, 0>>>>
    /\ (calc.fn = "encodeAngle" /\ calc.in = Angle(FullTurn \div 2))
          => calc.out = <<<<8, 0>>, <<0, 0>>, <<0, 0>>>>
    /\ (calc.fn = "decodeAngle" /\ calc.in = <<64, 0, 0>>)
          => 4 * calc.out = Steps
    /\ calc.fn = "decodeAngle"
          => calc.out = calc.in[1] * 65536 + calc.in[2] * 256 + calc.in[3]

\* C24 witness: 360 degrees has been encoded.
C24_Witness == calc.fn = "encodeAngle" /\ calc.in = Angle(FullTurn)

\* C25: for every input angle the encoded integer lies in [0, 2^24 - 1]
\* and is emitted as three bytes, and every GOTO frame is 8 bytes: the
\* 4-byte opcode of its axis and phase, the 3 angle bytes, the byte 00.
C25_FrameWidth ==
    /\ calc.fn \in {"encodeAngle", "GOTO_MOT"}
          => calc.integer >= 0 /\ calc.integer <= Steps - 1
    /\ calc.fn = "encodeAngle"
          => Len(calc.out) = 3 /\ \A k \in 1..3 : Len(calc.out[k]) = 2
    /\ calc.fn = "GOTO_MOT"
          => /\ Len(calc.out) = 16
             /\ SubSeq(calc.out, 9, 14)
                  = BigEndian(calc.integer)[1] \o BigEndian(calc.integer)[2]
                      \o BigEndian(calc.integer)[3]
             /\ SubSeq(calc.out, 15, 16) = <<0, 0>>
             /\ SubSeq(calc.out, 1, 7) = <<5, 0, 0, 4, 1, calc.axis - 1,
                                           IF calc.fast THEN 0 ELSE 1>>
             /\ calc.out[8] = IF calc.fast THEN 2 ELSE 7

(***************************************************************************)
(* Tracking frames: piggyBackTelescope.tracking (770-825) and              *)
(* stop_tracking (830-846), each call taken as one step.  Frames are       *)
(* sequences of hexadecimal digits.                                        *)
(***************************************************************************)
\* TRACKING_END_SEQUENCE = "0000", TRACKING_STOP = "0000"  (92-93)
TRACKING_END_SEQUENCE == <<0, 0, 0, 0>>
TRACKING_STOP == <<0, 0, 0, 0>>

\* A rate argument: its value and whether it is a Python float.
Rate(v, float) == [v |-> v, float |-> float]

TrackValues == {-100, -15, -1, 0, 15, 64}
TrackRates == {Rate(v, f) : v \in TrackValues, f \in BOOLEAN}

\* np.sign(rate), np.abs(rate)  (779-783)
sign(x) == IF x > 0 THEN 1 ELSE IF x < 0 THEN -1 ELSE 0
abs(x) == IF x < 0 THEN -x ELSE x

\* encode_rate = rate * 4; h1 = encode_rate // 256;
\* tmp = encode_rate - h1 * 256; h2 = int(tmp); hex(h)[2:] padded to two
\* digits  (785-811)
trackingBytes(rate) ==
    LET encode_rate == abs(rate) * 4
        h1 == encode_rate \div 256
        tmp == encode_rate - h1 * 256
        h2 == tmp
    IN <<pad(hex(h1)), pad(hex(h2))>>

\* TrackingOpcode with the test sign > 0: rate 0 takes the negative opcode.
TrackingOpcode_ZeroNegative(axis, rate) ==
    IF sign(rate) > 0
    THEN (IF axis = 1 THEN POS_MOT1_TRACKING ELSE POS_MOT2_TRACKING)
    ELSE (IF axis = 1 THEN NEG_MOT1_TRACKING ELSE NEG_MOT2_TRACKING)

\* The opcode of the axis for the sign of the rate  (813-821).
TrackingOpcode(axis, rate) ==
    IF sign(rate) >= 0
    THEN (IF axis = 1 THEN POS_MOT1_TRACKING ELSE POS_MOT2_TRACKING)
    ELSE (IF axis = 1 THEN NEG_MOT1_TRACKING ELSE NEG_MOT2_TRACKING)

\* MOTn_TRACKING_COMMAND of tracking  (813-821)
TRACKING_COMMAND(axis, rate) ==
    LET h == trackingBytes(rate)
    IN OpcodeDigits(TrackingOpcode(axis, rate)) \o h[1] \o h[2]
         \o TRACKING_END_SEQUENCE

\* MOTn_TRACKING_COMMAND of stop_tracking  (839-840)
STOP_TRACKING_COMMAND(axis) ==
    OpcodeDigits(IF axis = 1 THEN POS_MOT1_TRACKING ELSE POS_MOT2_TRACKING)
      \o TRACKING_STOP \o TRACKING_END_SEQUENCE

trackSeqVars ==
    <<impl, cur, op, reads, talkVars, gotoVars, flagVars, mountVars, obsVars,
      rs232_init, goto_ret, offTurn, angleVars, ioFailed>>

\* tracking(rate_mot1, rate_mot2).  The status becomes TRACKING and the
\* rates are cached (775-777).  hex() of a float raises TypeError (795,
\* 803): with a float rate the call ends there, no frame built.  Otherwise
\* the two frames are built and handed to RS232_Talk (823-824).
Tracking ==
    /\ \E r1, r2 \in TrackRates :
         /\ tracking_rate_mot1' = r1.v
         /\ tracking_rate_mot2' = r2.v
         /\ calc' = [fn |-> "tracking", in |-> <<r1.v, r2.v>>,
                     raised |-> r1.float \/ r2.float,
                     out |-> IF r1.float \/ r2.float THEN <<>>
                             ELSE <<TRACKING_COMMAND(1, r1.v),
                                    TRACKING_COMMAND(2, r2.v)>>]
    /\ motion_status' = "TRACKING"
    /\ UNCHANGED trackSeqVars

\* StopTracking that leaves the cached rates as they are.
StopTracking_KeepRates ==
    /\ \E raised \in BOOLEAN :
         /\ calc' = [fn |-> "stop_tracking",
                     was |-> <<tracking_rate_mot1, tracking_rate_mot2>>,
                     raised |-> raised,
                     out |-> <<STOP_TRACKING_COMMAND(1),
                               STOP_TRACKING_COMMAND(2)>>]
         /\ motion_status' = IF raised THEN motion_status ELSE "IDLE"
    /\ UNCHANGED <<trackVars, trackSeqVars>>

\* stop_tracking().  The cached rates are set to zero (836-837), the two
\* frames are built and handed to RS232_Talk (839-844).  The last line
\* awaits self.change_motion_status (846), a name this class does not
\* define: the call raises AttributeError unless a base class has it.
StopTracking ==
    /\ tracking_rate_mot1' = 0
    /\ tracking_rate_mot2' = 0
    /\ \E raised \in BOOLEAN :
         /\ calc' = [fn |-> "stop_tracking",
                     was |-> <<tracking_rate_mot1, tracking_rate_mot2>>,
                     raised |-> raised,
                     out |-> <<STOP_TRACKING_COMMAND(1),
                               STOP_TRACKING_COMMAND(2)>>]
         /\ motion_status' = IF raised THEN motion_status ELSE "IDLE"
    /\ UNCHANGED trackSeqVars

TrackNext == Tracking \/ StopTracking

TrackSpec == Init /\ [][TrackNext]_vars

C27_StopTrackingZero ==
    calc.fn = "stop_tracking" =>
        /\ tracking_rate_mot1 = 0 /\ tracking_rate_mot2 = 0
        /\ \A axis \in {1, 2} :
             /\ calc.out[axis] = TRACKING_COMMAND(axis, 0)
             /\ SubSeq(calc.out[axis], 1, 6) = <<5, 0, 0, 3, 1, axis - 1>>
             /\ SubSeq(calc.out[axis], 9, 12) = <<0, 0, 0, 0>>

\* C27 witness: stop_tracking has returned after both axes were tracking.
C27_Witness ==
    /\ calc.fn = "stop_tracking" /\ ~calc.raised
    /\ calc.was[1] # 0 /\ calc.was[2] # 0

(***************************************************************************)
(* Tracking among the other callers.                                       *)
(***************************************************************************)
\* The tracking call has written its axis-1 frame and not yet its axis-2
\* frame.
TrackHalfSent ==
    \/ op["poll"] = "track1" /\ pc["poll"] \in {"read", "pop", "set", "idle"}
    \/ op["poll"] = "track2"
         /\ pc["poll"] \notin {"read", "pop", "set", "idle"}

\* The tracking call is between its two transactions: the reply to the
\* axis-1 frame is read, the axis-2 frame is not written.
TrackBetween == TrackHalfSent /\ pc["poll"] # "read"

\* Each tracking call writes one axis-1 frame, then one axis-2 frame.
TrackBalanced ==
    TracksSent(1) - TracksSent(2) = IF TrackHalfSent THEN 1 ELSE 0

AbortHandled ==
    /\ op["goto"] \in {"done", "fault"}
    /\ op["stop"] \in {"done", "fault"} \/ abort_event

\* C30: whenever a GOTO is aborted, once the abort handling has finished
\* both cached tracking rates are zero and the GOTO-running flag is false:
\* the rates when the stop operation ends, the flag once the aborted GOTO
\* has ended as well.
C30_AbortResets ==
    [][/\ (op["stop"] \notin {"done", "fault"}
             /\ op'["stop"] \in {"done", "fault"})
          => tracking_rate_mot1' = 0 /\ tracking_rate_mot2' = 0
       /\ AbortHandled' => ~GOTO_RUNNING']_vars

(***************************************************************************)
(* Destination of a slew: TelescopeComm.GOTO_RADEC (288-333) with          *)
(* AngleDiff (580-586), piggyBackTelescope._move_radec (150-189) with      *)
(* HourAngle (925-931).  Hours and degrees are counted in 1/Ticks.         *)
(***************************************************************************)
Ticks == 2

\* HourAngle with the reduction of hourDiff > 12 left out.
HourAngle_NoReduce(LST, RA) == 15 * ((LST - RA) % (24 * Ticks))

\* hourDiff = (LST-RA) % 24; if hourDiff > 12: hourDiff = -24 + hourDiff;
\* convertAngle = hourDiff * 15  (580-586 / 925-931)
HourAngle(LST, RA) ==
    LET hourDiff == (LST - RA) % (24 * Ticks)
    IN 15 * (IF hourDiff > 12 * Ticks THEN -24 * Ticks + hourDiff
             ELSE hourDiff)

\* RA = RA % 24.0 (302 / 164); angle = self.AngleDiff(LST, RA);
\* sign = np.sign(angle); angle2 = (180 - DEC or DEC) % 360;
\* angle1 = angle or angle % 180  (318-330 / 174-186)
Destination(LST, RA0, DEC) ==
    LET RA == RA0 % (24 * Ticks)
        tau == HourAngle(LST, RA)
        angle2 == IF sign(tau) >= 0 THEN 180 * Ticks - DEC ELSE DEC
        angle1 == IF sign(tau) >= 0 THEN tau ELSE tau % (180 * Ticks)
    IN [tau |-> tau, mot1 |-> angle1, mot2 |-> angle2 % (360 * Ticks)]

\* Sidereal times of [0, 24) hours and declinations of [-90, 90] degrees.
LstValues == {0, 12 * Ticks + 1, 24 * Ticks - 1}
DecValues ==
    {-90 * Ticks, -90 * Ticks + 1, -1, 0, 1, 90 * Ticks - 1, 90 * Ticks}

\* The destination of a slew to (RA, DEC) at sidereal time LST is worked
\* out.  The right ascension may lie outside [0, 24) hours.
GotoRadec ==
    /\ \E LST \in LstValues, RA \in (-Ticks)..(25 * Ticks),
          DEC \in DecValues :
         calc' = [fn |-> "GOTO_RADEC", in |-> <<LST, RA, DEC>>,
                  out |-> Destination(LST, RA, DEC)]
    /\ UNCHANGED nonCalcVars

DestSpec == Init /\ [][GotoRadec]_vars

\* C29: destination computation.  tau = 15 * h with h = (LST - RA) mod 24,
\* reduced by 24 when h > 12; the motor-1 target is tau if tau >= 0 and
\* tau mod 180 otherwise; the motor-2 target is 180 - Dec if tau >= 0 and
\* Dec mod 360 otherwise.  So tau lies in (-180, 180] and the motor-1
\* target in [0, 180].
C29_Destination ==
    calc.fn = "GOTO_RADEC" =>
        LET h0 == (calc.in[1] - calc.in[2]) % (24 * Ticks)
            h == IF h0 > 12 * Ticks THEN h0 - 24 * Ticks ELSE h0
            tau == 15 * h
            Dec == calc.in[3]
        IN /\ calc.out.tau = tau
           /\ calc.out.mot1 = IF tau >= 0 THEN tau ELSE tau % (180 * Ticks)
           /\ calc.out.mot2 = IF tau >= 0 THEN 180 * Ticks - Dec
                              ELSE Dec % (360 * Ticks)
           /\ -180 * Ticks < calc.out.tau /\ calc.out.tau <= 180 * Ticks
           /\ 0 <= calc.out.mot1 /\ calc.out.mot1 <= 180 * Ticks

\* C29 witness: a target east of the meridian (tau < 0) at negative
\* declination, its right ascension given above 24 hours.
C29_Witness ==
    /\ calc.fn = "GOTO_RADEC"
    /\ calc.out.tau < 0 /\ calc.in[3] < 0 /\ calc.in[2] >= 24 * Ticks

\* C31: if the serial write or read raises inside RS232_Talk, the caller's
\* ticket is removed from RS232_QUEUE before the fault propagates: once
\* the failed caller has left RS232_Talk, every ticket in the list belongs
\* to a caller that is inside RS232_Talk, so later transactions are served.
C31_FaultReleasesTicket ==
    ioFailed # {} =>
        \A i \in 1..Len(RS232_QUEUE) :
            \E t \in Threads : pc[t] # "idle" /\ my_id[t] = RS232_QUEUE[i]

\* C32: order on the wire after a stop (thread version).  Once the stop
\* frame of STOP_GOTO has been written, the GOTO it aborts writes no
\* further fast-phase or slow-phase GOTO frame.
C32_NoGotoFrameAfterStop ==
    [][(/\ impl = "thread" /\ nSent[GOTO_STOP] > 0
        /\ pc["goto"] = "write" /\ pc'["goto"] = "read")
          => cmd["goto"] \notin FastFrames \cup SlowFrames]_vars

\* C33: an abort requested through STOP_GOTO while GOTO_RUNNING is true is
\* observed by the running GOTO (thread version): once STOP_GOTO has set
\* GOTO_IN_STOP, the flag stays set for as long as that GOTO runs; it is
\* not lost to the reset at the GOTO's entry.
C33_StopNotLost ==
    (/\ impl = "thread"
     /\ op["stop"] \in {"talk", "done"}
     /\ op["goto"] \notin {"init", "done", "fault"})
        => GOTO_IN_STOP

\* C34: in the task version, stop_motion called while a slew is in
\* progress makes the slew's poll loop exit: after stop_motion has written
\* the stop frame the slew writes no further status poll.
C34_StopEndsSlew ==
    [][(/\ impl = "task" /\ nSent[GOTO_STOP] > 0
        /\ pc["goto"] = "write" /\ pc'["goto"] = "read")
          => cmd["goto"] \notin PollFrames]_vars

\* C35: GOTO_RUNNING is true exactly while a GOTO is between its entry and
\* its return: it is false after the GOTO has ended (converged, aborted,
\* or ended by a fault such as a short status reply).
C35_RunningExact ==
    GOTO_RUNNING <=> op["goto"] \notin {"init", "done", "fault"}

\* C36: within one phase of a GOTO the per-axis stopped flag is latched.
\* An axis that has answered a status poll with first byte 0xFF is not
\* polled again in that phase; an iteration of the poll loop polls the
\* axes that have not, motor 1 before motor 2.
C36_AxisLatched ==
    [][LET slow == \A f \in SlowFrames : nSent[f] > 0
           stopped(a) == IF slow THEN ffSlow[a] ELSE ffFast[a]
       IN /\ (/\ pc["goto"] = "write" /\ pc'["goto"] = "read"
              /\ cmd["goto"] \in PollFrames)
                => ~stopped(cmd["goto"])
          /\ (/\ op["goto"] = "head" /\ op'["goto"] # "head"
              /\ ~test /\ ~AbortFlag)
                => cmd'["goto"] = IF ~stopped(RA_GOTO_RUN)
                                  THEN RA_GOTO_RUN ELSE DEC_GOTO_RUN
          /\ (op["goto"] = "ra" /\ op'["goto"] = "dec")
                => ~stopped(DEC_GOTO_RUN) /\ cmd'["goto"] = DEC_GOTO_RUN]_vars

\* C36 witness: in the fast phase motor 1 has reported stopped, motor 2
\* has answered "moving", and motor 2 alone is polled again.
C36_Witness ==
    /\ gphase = "fast" /\ ra_running /\ ~dec_running
    /\ movingLeft < MaxMoving
    /\ cmd["goto"] = DEC_GOTO_RUN /\ pc["goto"] = "read"


(***************************************************************************)
(* Ticket wrap-around: the counter starts two short of its modulus, the    *)
(* value it has after Modulus - 2 transactions.                            *)
(***************************************************************************)
WrapInit == InitAt(Modulus - 2)

WrapSpec == WrapInit /\ [][Next]_vars

\* C37: with no more callers outstanding than the counter modulus, the
\* tickets in RS232_QUEUE are pairwise distinct, every caller that holds a
\* ticket finds its own entry (no other holder has the same ticket), at most
\* one caller is inside its write+read, and a caller enqueued later is not
\* served before the earlier one completed, also when the counter wraps
\* from Modulus - 1 to 0.
C37_WrapHarmless ==
    Cardinality({t \in Threads : HoldsTicket(t)}) <= Modulus =>
        /\ \A i, j \in 1..Len(RS232_QUEUE) :
              i # j => RS232_QUEUE[i] # RS232_QUEUE[j]
        /\ \A t \in Threads : HoldsTicket(t) =>
              /\ Index(RS232_QUEUE, my_id[t]) >= 0
              /\ \A u \in Threads \ {t} :
                    HoldsTicket(u) => my_id[u] # my_id[t]
        /\ ~interleaved
        /\ \A t \in Threads : InTransaction(t) =>
              /\ Index(RS232_QUEUE, my_id[t]) = 0
              /\ \A u \in Threads \ {t} : ~InTransaction(u)
        /\ \A t, u \in Threads :
              (HoldsTicket(t) /\ HoldsTicket(u) /\ arr[t] < arr[u])
                  => ~(pc[u] \in {"write", "read", "pop"})

\* C37 witness: the tickets Modulus - 1 and 0 are queued together, the
\* caller with ticket Modulus - 1 is inside its write+read and the caller
\* with ticket 0 waits behind it.
C37_Witness ==
    /\ Len(RS232_QUEUE) >= 2
    /\ RS232_QUEUE[1] = Modulus - 1 /\ RS232_QUEUE[2] = 0
    /\ \E t, u \in Threads :
          /\ InTransaction(t) /\ my_id[t] = Modulus - 1
          /\ pc[u] \in {"wait", "blocked"} /\ my_id[u] = 0


\* C38: (thread-based) the event-based turn-taking behaves as a FIFO ticket
\* queue on a condition variable whose waiters re-check their position: the
\* caller inside its write+read is the one that enqueued first among the
\* ticket holders, and a waiter whose ticket is the head, which the
\* condition variable would let proceed, is not left inside event.wait()
\* with the event cleared and no caller about to set it.
C38_EventAsCondition ==
    impl = "thread" =>
        /\ \A t, u \in Threads :
              (InTransaction(t) /\ HoldsTicket(u) /\ u # t)
                  => arr[t] < arr[u]
        /\ \A t \in Threads :
              (HoldsTicket(t) /\ Index(RS232_QUEUE, my_id[t]) = 0
                  /\ pc[t] = "blocked")
              => (event \/ \E u \in Threads : pc[u] = "set")


(***************************************************************************)
(* Read-back of the pointing: TelescopeComm.GET_RADEC (335-368),           *)
(* piggyBackTelescope.get_radec (628-665).  Hours and degrees are counted  *)
(* in 1/Ticks, as for the destination.                                     *)
(***************************************************************************)

\* GET_RADEC with the branches of MOT2 taken the other way round.
GET_RADEC_SwapBranches(LST, MOT1, MOT2_0) ==
    LET MOT2 == (MOT2_0 + 90 * Ticks) % (360 * Ticks)
        RA(s) == IF s >= 0 THEN (-MOT1) \div 15
                 ELSE (180 * Ticks - MOT1) \div 15
        out(s, DEC) == [ok |-> TRUE, sign |-> s, dec |-> DEC,
                        ra |-> (RA(s) + LST) % (24 * Ticks)]
    IN IF MOT2 >= 180 * Ticks /\ MOT2 < 360 * Ticks
       THEN out(-1, 270 * Ticks - MOT2)
       ELSE IF MOT2 >= 0 /\ MOT2 < 180 * Ticks
       THEN out(1, MOT2 - 90 * Ticks)
       ELSE [ok |-> FALSE]

\* MOT2 = (MOT2 + 90.0) % 360.0; in [180, 360): sign = 1, DEC = 270 - MOT2;
\* in [0, 180): sign = -1, DEC = MOT2 - 90; otherwise a message is printed
\* and sign and DEC stay unassigned (344-352 / 642-650).
\* RA = -MOT1/15 if sign >= 0 else (180-MOT1)/15; RA += LST; RA = RA % 24
\* (354-359 / 652-658).  The division is exact for the motor-1 angles of a
\* destination, which are multiples of 15.
GET_RADEC(LST, MOT1, MOT2_0) ==
    LET MOT2 == (MOT2_0 + 90 * Ticks) % (360 * Ticks)
        RA(s) == IF s >= 0 THEN (-MOT1) \div 15
                 ELSE (180 * Ticks - MOT1) \div 15
        out(s, DEC) == [ok |-> TRUE, sign |-> s, dec |-> DEC,
                        ra |-> (RA(s) + LST) % (24 * Ticks)]
    IN IF MOT2 >= 180 * Ticks /\ MOT2 < 360 * Ticks
       THEN out(1, 270 * Ticks - MOT2)
       ELSE IF MOT2 >= 0 /\ MOT2 < 180 * Ticks
       THEN out(-1, MOT2 - 90 * Ticks)
       ELSE [ok |-> FALSE]

\* The pointing is read back at the sidereal time of the slew, the motors
\* standing at the destination that was worked out.
GetRadec ==
    /\ calc.fn = "GOTO_RADEC"
    /\ calc' = [fn |-> "GET_RADEC", in |-> calc.in, at |-> calc.out,
                out |-> GET_RADEC(calc.in[1], calc.out.mot1, calc.out.mot2)]
    /\ UNCHANGED nonCalcVars

\* The first slew after construction.
FirstGotoRadec == calc.fn = "none" /\ GotoRadec

\* One slew and the read-back that follows it.
RoundTripSpec == Init /\ [][FirstGotoRadec \/ GetRadec]_vars

\* C39: for LST and RA in [0, 24) and Dec strictly between -90 and 90, the
\* read-back of the destination of (RA, Dec) at the same LST takes one of
\* the two branches that assign sign and Dec, and gives the same Dec and
\* the same RA modulo 24.
C39_RoundTrip ==
    (/\ calc.fn = "GET_RADEC"
     /\ 0 <= calc.in[2] /\ calc.in[2] < 24 * Ticks
     /\ -90 * Ticks < calc.in[3] /\ calc.in[3] < 90 * Ticks)
    => /\ calc.at.mot1 % 15 = 0
       /\ calc.out.ok
       /\ calc.out.dec = calc.in[3]
       /\ calc.out.ra % (24 * Ticks) = calc.in[2] % (24 * Ticks)

\* C39 witness: a target east of the meridian just above declination -90
\* has been read back.
C39_Witness ==
    /\ calc.fn = "GET_RADEC"
    /\ 0 <= calc.in[2] /\ calc.in[2] < 24 * Ticks
    /\ calc.in[3] = -90 * Ticks + 1
    /\ calc.at.tau < 0 /\ calc.out.ok /\ calc.out.sign = -1

=============================================================================
